---- MODULE Spec2Model ----
(***************************************************************************)
(* Model of sysml-v2-sql: the transactional JSON import (src/import.rs),   *)
(* the streaming decoder of a top-level JSON array                         *)
(* (src/util/stream_json.rs) and their callers.                            *)
(*                                                                         *)
(* SpecImport  - the import-json command run against a SQLite store        *)
(* SpecDecode  - iter_json_array pulled over a byte document               *)
(***************************************************************************)
EXTENDS Integers, Sequences, FiniteSets, Bags, TLC

(***************************************************************************)
(* Bounds of the model                                                     *)
(***************************************************************************)
\* longest element sequence handed to one import
MaxBatchLen == 2
\* an import is only started while the extended_properties table holds at
\* most this many rows (the table can grow without limit, see ObsoleteDelete)
MaxExtRows == 2
\* longest document handed to the streaming decoder, in bytes
MaxDocLen == 6
\* longest document read through two iterators at once, in bytes
MaxCloneDocLen == 5
\* most pages the server has for one fetch
MaxPages == 4
\* most definitions in a schema file
MaxDefs == 2
\* most members of a oneOf or anyOf of a classified property
MaxMembers == 2
\* pages of a server that may have a fault, elements of a dump file
MaxServed == 2
MaxDumpLen == 3

(***************************************************************************)
(* State                                                                   *)
(***************************************************************************)
VARIABLES
    \* the import-json command and the store of the database file
    db,       \* the committed store
    txn,      \* the working copy of the open transaction
    batch,    \* the element stream of the file being imported
    pc,       \* "idle", or the position of the running import
    result,   \* "none", "ok" or "err": how the last import ended
    pre,      \* the store as it was when the running import was called
    again,    \* the running import repeats the previous, successful one
    \* one iter_json_array iterator over one document
    doc,      \* the bytes of the document
    pos,      \* the reader's position: the next unread byte
    at_start, \* the flag of yield_next_obj (true once the first call was made)
    yielded,  \* the elements yielded so far, each by its place in doc
    status,   \* "running", "ended" (None was yielded) or "failed" (an Err)
    \* a second CloneableJsonArrayStreamIterator, made by clone() of the first
    clone,    \* its reader position, flag, yielded elements and status
    \* the tasks of fetch_from_url_to_file and the server they talk to
    chain,       \* the pages the server offers, and where their links lead
    maybe_url,   \* the page the paginator requests next (0: None)
    resp,        \* the response the paginator holds (0: none)
    channel,     \* the responses sent and not yet received, oldest first
    elements,    \* the decoder task's element list
    pages_count, \* the shared pages counter
    ptask,       \* the paginator task: "request", "send" or "done"
    dtask,       \* the decoder task: "recv", "parse" or "done"
    parsing,     \* the response the decoder task holds (0: none)
    fetch_pc,    \* "idle", "start" (called), "tasks" (spawned) or "returned"
    given,       \* what the call meets: the dump file, and the fault of the server
    effects,     \* the monitor task, the dump file, the store, the outcome
    \* one call of SqlRepresentation::fuse
    fuse_in,     \* self, other and column_name
    fuse_out,    \* what the call returned and left in self
    \* the json-schema-to-sql-schema command
    schema_file,   \* the definitions of the schema file, in the order listed
    schema_again,  \* a second file listing the same definitions
    generated,     \* what consume_json_schema returned for schema_file
    generated_again, \* ... and for schema_again
    \* one element taken through the two passes of the import by itself
    probe,       \* the element
    probed,      \* what pass 1 and pass 2 did with it
    \* one call of SqlRepresentation::try_from_json_schema_ty
    prop_ty,     \* the JSON schema type of the property
    classified   \* what the call returned

importVars == <<db, txn, batch, pc, result, pre, again>>
decodeVars == <<doc, pos, at_start, yielded, status>>
cloneVars == <<clone>>
fetchVars == <<chain, maybe_url, resp, channel, elements, pages_count, ptask,
               dtask, parsing, fetch_pc, given, effects>>
fuseVars == <<fuse_in, fuse_out>>
schemaVars == <<schema_file, schema_again, generated, generated_again>>
probeVars == <<probe, probed>>
classifyVars == <<prop_ty, classified>>
vars == <<importVars, decodeVars, cloneVars, fetchVars, fuseVars, schemaVars,
          probeVars, classifyVars>>

\* what each command leaves alone: the state of the other commands
outsideImport == <<decodeVars, cloneVars, fetchVars, fuseVars, schemaVars,
  probeVars, classifyVars>>
outsideDecode == <<importVars, cloneVars, fetchVars, fuseVars, schemaVars,
  probeVars, classifyVars>>
outsideClone == <<importVars, fetchVars, fuseVars, schemaVars,
  probeVars, classifyVars>>
outsideFetch == <<importVars, decodeVars, cloneVars, fuseVars, schemaVars,
  probeVars, classifyVars>>
outsideFuse == <<importVars, decodeVars, cloneVars, fetchVars, schemaVars,
  probeVars, classifyVars>>
outsideSchema == <<importVars, decodeVars, cloneVars, fetchVars, fuseVars,
  probeVars, classifyVars>>

outsideProbe == <<importVars, decodeVars, cloneVars, fetchVars, fuseVars, schemaVars,
                  classifyVars>>
outsideClassify == <<importVars, decodeVars, cloneVars, fetchVars, fuseVars, schemaVars,
                     probeVars>>

\* no second iterator exists
CloneIdle == clone = [pos |-> 1, at_start |-> FALSE, yielded |-> <<>>,
                      status |-> "absent", born |-> 0]

\* no fault of the server; no dump file
NoFault == [kind |-> "none", page |-> 0]
NoFile == [exists |-> FALSE, elements |-> <<>>]
\* a file by what it holds: the elements it had before the fetch that are
\* still in it, and the fetched elements written to it
FileOf(dump) == [exists |-> dump.exists, kept |-> dump.elements, fetched |-> <<>>]
NoEffects == [monitor |-> "none", outcome |-> "none", file |-> FileOf(NoFile),
              imported |-> FALSE, id_map |-> {}, send_errors |-> 0]

\* no fetch is running
FetchIdle ==
    /\ given = [fault |-> NoFault, dump |-> NoFile]
    /\ effects = NoEffects
    /\ chain = [pages |-> <<>>, loops |-> FALSE]
    /\ maybe_url = 0
    /\ resp = 0
    /\ channel = <<>>
    /\ elements = <<>>
    /\ pages_count = 0
    /\ ptask = "done"
    /\ dtask = "done"
    /\ parsing = 0
    /\ fetch_pc = "idle"

\* no schema is being converted
NoRepr == [k |-> "none", unique |-> FALSE, null |-> FALSE,
           id_foreign_key_constraint |-> FALSE, ty |-> ""]
FuseNotCalled == [called |-> FALSE, ok |-> FALSE, changed |-> FALSE,
                  self |-> NoRepr, err |-> ""]
FuseIdle ==
    /\ fuse_in = [self |-> NoRepr, other |-> NoRepr, column_name |-> ""]
    /\ fuse_out = FuseNotCalled
NotGenerated == [called |-> FALSE, ok |-> FALSE, err |-> "", ddl |-> <<>>]
SchemaIdle ==
    /\ schema_file = <<>>
    /\ schema_again = <<>>
    /\ generated = NotGenerated
    /\ generated_again = NotGenerated

\* no element is being looked at by itself
NotProbed == [called |-> "none"]
ProbeIdle ==
    /\ probe = [id |-> ""]
    /\ probed = NotProbed
\* no property is being classified
NotClassified == [called |-> FALSE]
ClassifyIdle ==
    /\ prop_ty = [k |-> "none"]
    /\ classified = NotClassified

(***************************************************************************)
(* JSON values (serde_json::Value) and elements                            *)
(***************************************************************************)
\* Every value is a record of the same shape, the tag t saying which field
\* counts: b (bool), n (number: kind "i64" fits i64, "u64" integral above
\* i64::MAX, "f64" floating), s (string), o (object, by what is_relation_object
\* looks at: the kind of its "@id" member ("str", "other", "none"), that
\* member's string and the number of other members), a (array)
NoNum == [kind |-> "", n |-> 0]
NoObj == [idKind |-> "none", id |-> "", extra |-> 0]
JValue(t, b, n, s, o, a) == [t |-> t, b |-> b, n |-> n, s |-> s, o |-> o, a |-> a]
\* a key that is not present in a map (Option::None of Map::get)
Absent == JValue("absent", FALSE, NoNum, "", NoObj, <<>>)
JNull == JValue("null", FALSE, NoNum, "", NoObj, <<>>)
JBool(b) == JValue("bool", b, NoNum, "", NoObj, <<>>)
JNum(kind, n) == JValue("num", FALSE, [kind |-> kind, n |-> n], "", NoObj, <<>>)
JStr(s) == JValue("str", FALSE, NoNum, s, NoObj, <<>>)
JObj(idKind, id, extra) ==
    JValue("obj", FALSE, NoNum, "", [idKind |-> idKind, id |-> id, extra |-> extra], <<>>)
JRef(id) == JObj("str", id, 0)
JArr(items) == JValue("arr", FALSE, NoNum, "", NoObj, items)

ELEMENT_PK_COL == "@id"
POLYMORPHIC_PROPS == {"value"}

\* is_relation_object: exactly one member, named "@id", holding a string
is_relation_object(o) == o.idKind = "str" /\ o.extra = 0

(***************************************************************************)
(* The schema of the store the import runs against (read back by           *)
(* get_table_columns): column names and declared types, in table order.    *)
(***************************************************************************)
AllTables == {"elements", "relations", "extended_properties"}

ElementsColumns ==
    << <<"@id", "TEXT">>, <<"isAbstract", "INTEGER">>, <<"name", "TEXT">>, <<"value", "ANY">> >>

ExtendedColumns ==
    << <<"@id", "TEXT">>, <<"aliasIds", "TEXT">>, <<"labels", "TEXT">> >>

\* names admitted by the CHECK constraint of relations."name"
AllowedRelationNames == {"owner"} \cup POLYMORPHIC_PROPS \cup {"analysisAction"}

\* attribute names that occur in the modelled JSON documents
AttrNames == {"isAbstract", "name", "value", "owner", "bogus", "aliasIds", "labels"}

ColumnNames(cols) == {cols[i][1] : i \in DOMAIN cols}

\* get_table_columns: PRAGMA table_info of a missing table yields no rows
get_table_columns(store, table, cols) == IF table \in store.tables THEN cols ELSE <<>>

(***************************************************************************)
(* SQLite values (rusqlite::types::Value) and rows                         *)
(***************************************************************************)
DbNull == [k |-> "null", n |-> 0, s |-> ""]
DbInteger(n) == [k |-> "int", n |-> n, s |-> ""]
DbReal(n) == [k |-> "real", n |-> n, s |-> ""]
DbText(s) == [k |-> "text", n |-> 0, s |-> s]

\* column_name.starts_with("is") && third char is uppercase
IsBoolFlagColumn(name) == name \in {"isAbstract"}

\* str::parse::<bool>: only "true" and "false" parse
ParsesAsBool(s) == s \in {"true", "false"}

\* The value pass 1 stores for one column of one element; "error" stands for
\* the `?` on s.parse() and for the panic of as_i64().expect()
ColumnValue(element, column_name) ==
    IF column_name = ELEMENT_PK_COL THEN [ok |-> TRUE, val |-> DbText(element.id)]
    ELSE LET j == element.rest[column_name] IN
         CASE j.t = "absent" -> [ok |-> TRUE, val |-> DbNull]
           [] j.t = "null" -> [ok |-> TRUE, val |-> DbNull]
           [] j.t = "bool" -> [ok |-> TRUE, val |-> DbInteger(IF j.b THEN 1 ELSE 0)]
           [] j.t = "str" /\ IsBoolFlagColumn(column_name) ->
                IF ParsesAsBool(j.s)
                THEN [ok |-> TRUE, val |-> DbInteger(IF j.s = "true" THEN 1 ELSE 0)]
                ELSE [ok |-> FALSE, val |-> DbNull]
           [] j.t = "num" /\ j.n.kind = "f64" -> [ok |-> TRUE, val |-> DbReal(j.n.n)]
           [] j.t = "num" /\ j.n.kind = "i64" -> [ok |-> TRUE, val |-> DbInteger(j.n.n)]
           [] j.t = "num" /\ j.n.kind \notin {"f64", "i64"} -> [ok |-> FALSE, val |-> DbNull]
           [] j.t = "str" /\ ~IsBoolFlagColumn(column_name) -> [ok |-> TRUE, val |-> DbText(j.s)]
           [] OTHER -> [ok |-> TRUE, val |-> DbNull]

\* STRICT tables: what a column of a declared type accepts
StrictAccepts(ty, val) ==
    CASE val.k = "null" -> TRUE
      [] ty = "ANY" -> TRUE
      [] ty = "TEXT" -> TRUE
      [] ty = "INTEGER" -> val.k = "int"
      [] ty = "REAL" -> val.k \in {"int", "real"}
      [] OTHER -> FALSE

(***************************************************************************)
(* The store: the three tables of one SQLite database file                 *)
(***************************************************************************)
\* elements: a set of rows (the primary key and the other columns), at most one
\* per "@id"; relations: a set of <<name, origin_id, target_id>> (the triple is
\* the primary key); extended_properties: a bag of rows (the table has no key)
EmptyStore(tables) ==
    [tables |-> tables, elements |-> {}, relations |-> {}, extended_properties |-> EmptyBag]

ElementIds(store) == {r.id : r \in store.elements}

ExtRow(id, column, value) == [id |-> id, col |-> column, val |-> value]

\* a transaction's working copy of the store, with the temporary table
\* "inserted_elements" (damage tracking)
BeginTransaction(store) ==
    [elements |-> store.elements, relations |-> store.relations,
     extended_properties |-> store.extended_properties, inserted |-> {}]

NoTransaction ==
    [elements |-> {}, relations |-> {}, extended_properties |-> EmptyBag, inserted |-> {}]

\* the rows a COMMIT makes durable
Committed(store, ta) ==
    [tables |-> store.tables, elements |-> ta.elements, relations |-> ta.relations,
     extended_properties |-> ta.extended_properties]

(***************************************************************************)
(* Statement preparation (import.rs 78-128)                                *)
(***************************************************************************)
\* the insert statements for extended_properties: one per column but "@id"
ExtInsertColumns(cols) == SelectSeq(cols, LAMBDA c : c[1] # ELEMENT_PK_COL)

\* Everything up to the first pass succeeds: the INSERT statements compile only
\* against existing tables, and the assert_eq on the number of
\* extended_properties statements holds
PrepareUnchecked(store) == TRUE

PrepareSucceeds(store) ==
    LET ecols == get_table_columns(store, "elements", ElementsColumns)
        xcols == get_table_columns(store, "extended_properties", ExtendedColumns)
    IN /\ "elements" \in store.tables
       /\ Len(ecols) > 0
       /\ "relations" \in store.tables
       /\ Len(xcols) = Len(ExtInsertColumns(xcols)) + 1

\* The text handed to prepare() for obsolete_delete_stmt names two DELETE
\* statements, in this order
ObsoleteDeleteSql == <<"relations", "extended_properties">>

\* Connection::prepare compiles the first statement of its text into the one
\* sqlite3_stmt a Statement holds; Statement::execute runs that statement
PreparedNothing(sql) == <<>>

PreparedDelete(sql) == <<Head(sql)>>

(***************************************************************************)
(* Pass 1: one elements row per element (import.rs 178-251)                *)
(***************************************************************************)
\* the primary key "@id" is kept as the field id, the other columns in cols
ElementRow(element, cols) ==
    [id |-> ColumnValue(element, ELEMENT_PK_COL).val.s,
     cols |-> [c \in ColumnNames(cols) \ {ELEMENT_PK_COL} |-> ColumnValue(element, c).val]]

RowBuilds(element, cols) ==
    \A i \in DOMAIN cols :
        /\ ColumnValue(element, cols[i][1]).ok
        /\ StrictAccepts(cols[i][2], ColumnValue(element, cols[i][1]).val)

\* (an upsert that keeps the stored value of a column the new row has null for)
InsertOrMergeElement(rows, row) ==
    {r \in rows : r.id # row.id}
    \cup {[id |-> row.id,
           cols |-> [c \in DOMAIN row.cols |->
                      IF row.cols[c] = DbNull /\ \E r \in rows : r.id = row.id
                      THEN (CHOOSE r \in rows : r.id = row.id).cols[c]
                      ELSE row.cols[c]]]}

\* INSERT OR REPLACE INTO "elements": the row with the same primary key goes
InsertOrReplaceElement(rows, row) == {r \in rows : r.id # row.id} \cup {row}

\* a stream item: Ok(element) or the decoder's Err
NoAttrs == [n \in AttrNames |-> Absent]
Ok(element) == [ok |-> TRUE, element |-> element]
DecodeErr == [ok |-> FALSE, element |-> [id |-> "", rest |-> NoAttrs]]

RECURSIVE Pass1(_, _, _)
Pass1(ta, items, cols) ==
    IF items = <<>> THEN [ok |-> TRUE, ta |-> ta]
    ELSE LET item == Head(items) IN
         IF ~item.ok \/ ~RowBuilds(item.element, cols) THEN [ok |-> FALSE, ta |-> ta]
         ELSE Pass1([ta EXCEPT
                        !.elements = InsertOrReplaceElement(@, ElementRow(item.element, cols)),
                        !.inserted = @ \cup {item.element.id}],
                    Tail(items), cols)

(***************************************************************************)
(* Removal of the relations and extended properties of the re-imported     *)
(* elements (import.rs 121-128, 257-265)                                   *)
(***************************************************************************)
BagWithout(bag, drop(_)) == [r \in {x \in DOMAIN bag : ~drop(x)} |-> bag[r]]

DeleteFromEitherEnd(ta, table) ==
    IF table = "relations"
    THEN [ta EXCEPT !.relations = {r \in @ : r[2] \notin ta.inserted /\ r[3] \notin ta.inserted}]
    ELSE [ta EXCEPT !.extended_properties = BagWithout(@, LAMBDA x : x.id \in ta.inserted)]

DeleteFrom(ta, table) ==
    IF table = "relations"
    THEN [ta EXCEPT !.relations = {r \in @ : r[2] \notin ta.inserted}]
    ELSE [ta EXCEPT !.extended_properties = BagWithout(@, LAMBDA x : x.id \in ta.inserted)]

RECURSIVE ExecuteDeletes(_, _)
ExecuteDeletes(ta, stmts) ==
    IF stmts = <<>> THEN ta ELSE ExecuteDeletes(DeleteFrom(ta, Head(stmts)), Tail(stmts))

\* obsolete_delete_stmt.execute(()), then DROP TABLE "inserted_elements"
ObsoleteDelete(ta) ==
    [ExecuteDeletes(ta, PreparedDelete(ObsoleteDeleteSql)) EXCEPT !.inserted = {}]

(***************************************************************************)
(* Pass 2: relations and extended properties (import.rs 279-384)           *)
(***************************************************************************)
Range(f) == {f[i] : i \in DOMAIN f}

RECURSIVE SeqToBag(_)
SeqToBag(q) == IF q = <<>> THEN EmptyBag ELSE SetToBag({Head(q)}) (+) SeqToBag(Tail(q))

\* the `all(...)` guard of the 1:* arm (true of the empty array)
AllRelationObjects(items) ==
    \A i \in DOMAIN items : items[i].t = "obj" /\ is_relation_object(items[i].o)

\* serde_json::from_value::<Vec<String>>
IsStringArray(j) == j.t = "arr" /\ \A i \in DOMAIN j.a : j.a[i].t = "str"

\* insert_relation: the CHECK constraint on "name" is immediate
RelationInsertOk(name) == name \in AllowedRelationNames

NoEffect == [ok |-> TRUE, rels |-> {}, ext |-> EmptyBag]
Failure == [ok |-> FALSE, rels |-> {}, ext |-> EmptyBag]

\* rows of one column of extended_properties for one element (import.rs 342-360)
ExtRowsOfColumn(element, col) ==
    LET j == element.rest[col[1]] IN
    IF j.t = "absent" THEN NoEffect
    ELSE IF col[2] # "TEXT" \/ ~IsStringArray(j) THEN Failure
    ELSE [ok |-> TRUE, rels |-> {},
          ext |-> SeqToBag([i \in DOMAIN j.a |-> ExtRow(element.id, col[1], j.a[i].s)])]

\* the loop over all columns of extended_properties, run for one attribute
ExtRowsOfElement(element, xcols) ==
    LET cs == ExtInsertColumns(xcols)
        parts == [i \in DOMAIN cs |-> ExtRowsOfColumn(element, cs[i])]
        RECURSIVE Sum(_)
        Sum(k) == IF k = 0 THEN EmptyBag ELSE parts[k].ext (+) Sum(k - 1)
    IN IF \E i \in DOMAIN parts : ~parts[i].ok THEN Failure
       ELSE [ok |-> TRUE, rels |-> {}, ext |-> Sum(Len(cs))]

\* what one attribute of one element inserts: the match of import.rs 290-382
AttrEffect(element, name, xcols) ==
    LET j == element.rest[name] IN
    CASE j.t \in {"absent", "null", "bool", "num", "str"} -> NoEffect
      [] j.t = "obj" /\ is_relation_object(j.o) ->
           IF RelationInsertOk(name)
           THEN [ok |-> TRUE, rels |-> {<<name, element.id, j.o.id>>}, ext |-> EmptyBag]
           ELSE Failure
      [] j.t = "arr" /\ AllRelationObjects(j.a) ->
           IF j.a # <<>> /\ ~RelationInsertOk(name) THEN Failure
           ELSE [ok |-> TRUE, rels |-> {<<name, element.id, t.o.id>> : t \in Range(j.a)},
                 ext |-> EmptyBag]
      [] j.t = "arr" /\ ~AllRelationObjects(j.a) /\ name \in ColumnNames(xcols) ->
           ExtRowsOfElement(element, xcols)
      [] OTHER -> NoEffect

\* the attributes of an element in the order the map yields them
AttrOrder == <<"aliasIds", "bogus", "isAbstract", "labels", "name", "owner", "value">>

RECURSIVE Pass2Element(_, _, _, _)
Pass2Element(ta, element, names, xcols) ==
    IF names = <<>> THEN [ok |-> TRUE, ta |-> ta]
    ELSE LET eff == AttrEffect(element, Head(names), xcols) IN
         IF ~eff.ok THEN [ok |-> FALSE, ta |-> ta]
         ELSE Pass2Element([ta EXCEPT !.relations = @ \cup eff.rels,
                                      !.extended_properties = @ (+) eff.ext],
                           element, Tail(names), xcols)

RECURSIVE Pass2(_, _, _)
Pass2(ta, items, xcols) ==
    IF items = <<>> THEN [ok |-> TRUE, ta |-> ta]
    ELSE LET item == Head(items) IN
         IF ~item.ok THEN [ok |-> FALSE, ta |-> ta]
         ELSE LET r == Pass2Element(ta, item.element, AttrOrder, xcols) IN
              IF ~r.ok THEN r ELSE Pass2(r.ta, Tail(items), xcols)

(***************************************************************************)
(* End of the transaction (import.rs 58-62, 393-394)                       *)
(***************************************************************************)
\* the deferred foreign keys of relations and extended_properties, checked by
\* COMMIT (foreign_keys is ON)
ForeignKeysUnchecked(ta) == TRUE

ForeignKeysHold(ta) ==
    LET ids == {r.id : r \in ta.elements} IN
    /\ \A r \in ta.relations : r[2] \in ids /\ r[3] \in ids
    /\ \A x \in DOMAIN ta.extended_properties : x.id \in ids

\* a Transaction dropped without commit: DropBehavior::Rollback
DropCommits(store, ta) == Committed(store, ta)

DropTransaction(store, ta) == store

(***************************************************************************)
(* The streaming decoder of a top-level array (util/stream_json.rs)        *)
(***************************************************************************)
\* A document is a sequence of bytes, written by class: "[", "]", ",", "sp"
\* (space, tab, line feed, carriage return), "ff" (form feed), "e" (the text
\* of one element object, which serde_json decodes into an Element) and "x"
\* (anything else, the text of an undecodable value included)
Bytes == {"[", "]", ",", "sp", "ff", "e", "x"}

\* a reader that treats no byte as whitespace
SkipsNothing(byte) == FALSE

\* u8::is_ascii_whitespace
is_ascii_whitespace(byte) == byte \in {"sp", "ff"}

\* the whitespace serde_json skips in front of a value
IsJsonWhitespace(byte) == byte = "sp"

Eof == [ok |-> FALSE, byte |-> "", pos |-> 0]

\* read_skipping_ws: the first byte at or after p that is no whitespace, and
\* the position behind it; an io error at the end of the input
RECURSIVE read_skipping_ws(_, _)
read_skipping_ws(d, p) ==
    IF p > Len(d) THEN Eof
    ELSE IF is_ascii_whitespace(d[p]) THEN read_skipping_ws(d, p + 1)
    ELSE [ok |-> TRUE, byte |-> d[p], pos |-> p + 1]

\* what a call of yield_next_obj returns: kind "some" (Ok(Some(value))),
\* "none" (Ok(None)) or "err"; value is the place of the element in d
Some(value, p) == [kind |-> "some", value |-> value, pos |-> p]
None(p) == [kind |-> "none", value |-> 0, pos |-> p]
Err(p) == [kind |-> "err", value |-> 0, pos |-> p]

\* deserialize_single: Deserializer::from_reader(reader).into_iter().next()
\* on the input from p on: whitespace is skipped, then one value is decoded
RECURSIVE deserialize_single(_, _)
deserialize_single(d, p) ==
    IF p > Len(d) THEN Err(p)
    ELSE IF IsJsonWhitespace(d[p]) THEN deserialize_single(d, p + 1)
    ELSE IF d[p] = "e" THEN Some(p, p + 1)
    ELSE Err(p)

\* (a variant that takes an unexpected byte for the end of the array)
yield_next_obj_lenient(d, p, started) ==
    IF ~started
    THEN LET first == read_skipping_ws(d, p) IN
         IF ~first.ok THEN Err(p)
         ELSE IF first.byte = "["
         THEN LET peek == read_skipping_ws(d, first.pos) IN
              IF ~peek.ok THEN Err(first.pos)
              ELSE IF peek.byte = "]" THEN None(peek.pos)
              ELSE deserialize_single(d, peek.pos - 1)
         ELSE None(first.pos)
    ELSE LET next == read_skipping_ws(d, p) IN
         IF ~next.ok THEN Err(p)
         ELSE IF next.byte = "," THEN deserialize_single(d, next.pos)
         ELSE None(next.pos)

yield_next_obj(d, p, started) ==
    IF ~started
    THEN LET first == read_skipping_ws(d, p) IN
         IF ~first.ok THEN Err(p)
         ELSE IF first.byte = "["
         THEN LET peek == read_skipping_ws(d, first.pos) IN
              IF ~peek.ok THEN Err(first.pos)
              ELSE IF peek.byte = "]" THEN None(peek.pos)
              \* Cursor::new([peek]).chain(reader): the peeked byte is read again
              ELSE deserialize_single(d, peek.pos - 1)
         ELSE Err(first.pos)
    ELSE LET next == read_skipping_ws(d, p) IN
         IF ~next.ok THEN Err(p)
         ELSE IF next.byte = "," THEN deserialize_single(d, next.pos)
         ELSE IF next.byte = "]" THEN None(next.pos)
         ELSE Err(next.pos)

\* no import has run: the database file is new and empty
ImportIdle ==
    /\ db = EmptyStore({})
    /\ txn = NoTransaction
    /\ batch = <<>>
    /\ pc = "idle"
    /\ result = "none"
    /\ pre = EmptyStore({})
    /\ again = FALSE

Documents == UNION {[1..n -> Bytes] : n \in 0..MaxDocLen}

DecoderIdle ==
    /\ doc = <<>>
    /\ pos = 1
    /\ at_start = FALSE
    /\ yielded = <<>>
    /\ status = "ended"

\* iter_json_array(reader): a fresh iterator at the start of a document
DecodeInit ==
    /\ doc \in Documents
    /\ pos = 1
    /\ at_start = FALSE
    /\ yielded = <<>>
    /\ status = "running"
    /\ ImportIdle /\ CloneIdle /\ FetchIdle /\ FuseIdle /\ SchemaIdle
    /\ ProbeIdle /\ ClassifyIdle

\* Iterator::next as the import's for loops call it: until the iterator
\* yields None, or an Err (which the loop body returns with `?`)
PullNext ==
    /\ status = "running"
    /\ LET r == yield_next_obj(doc, pos, at_start) IN
       /\ at_start' = TRUE
       /\ pos' = r.pos
       /\ yielded' = IF r.kind = "some" THEN Append(yielded, r.value) ELSE yielded
       /\ status' = CASE r.kind = "some" -> "running"
                      [] r.kind = "none" -> "ended"
                      [] r.kind = "err" -> "failed"
    /\ UNCHANGED <<doc, outsideDecode>>

DecodeNext == PullNext

SpecDecode == DecodeInit /\ [][DecodeNext]_vars

(***************************************************************************)
(* The import-json command (main.rs 59-62, import.rs 49-435), one process  *)
(* per run, against the store of one database file                         *)
(***************************************************************************)
Elem(id, attrs) ==
    [id |-> id, rest |-> [n \in AttrNames |-> IF n \in DOMAIN attrs THEN attrs[n] ELSE Absent]]

\* the stream items the modelled files are made of
Items ==
    { Ok(Elem("a", <<>>)),
      Ok(Elem("a", "name" :> JStr("n"))),
      Ok(Elem("a", "owner" :> JRef("b"))),
      Ok(Elem("b", "owner" :> JArr(<<JRef("a")>>))),
      Ok(Elem("b", "aliasIds" :> JArr(<<JStr("v")>>))),
      Ok(Elem("b", ("aliasIds" :> JArr(<<JStr("v")>>)) @@ ("labels" :> JArr(<<JStr("w")>>)))),
      Ok(Elem("b", "bogus" :> JRef("a"))),
      Ok(Elem("a", "isAbstract" :> JStr("yes"))),
      DecodeErr }

Batches == UNION {[1..n -> Items] : n \in 0..MaxBatchLen}

ImportInit ==
    /\ ImportIdle
    /\ DecoderIdle /\ CloneIdle /\ FetchIdle /\ FuseIdle /\ SchemaIdle
    /\ ProbeIdle /\ ClassifyIdle

\* init-db: the schema script creates the three tables; it fails on a store
\* that already has them
InitDb ==
    /\ pc = "idle"
    /\ db' = IF db.tables = {} THEN [db EXCEPT !.tables = AllTables] ELSE db
    /\ pre' = db'
    /\ UNCHANGED <<txn, batch, pc, result, again, outsideImport>>

\* import-json FILE: the file is opened as an element stream
StartImport(b) ==
    /\ pc = "idle"
    /\ BagCardinality(db.extended_properties) <= MaxExtRows
    /\ batch' = b
    /\ pc' = "prepare"
    /\ pre' = db
    /\ result' = "none"
    /\ again' = FALSE
    /\ UNCHANGED <<db, txn, outsideImport>>

\* the import ends in an error: the transaction is dropped
Abort ==
    /\ db' = DropTransaction(db, txn)
    /\ txn' = NoTransaction
    /\ pc' = "done"
    /\ result' = "err"
    /\ UNCHANGED <<batch, pre, again, outsideImport>>

\* pragmas, BEGIN, get_table_columns, the temporary table, the statements
Prepare ==
    /\ pc = "prepare"
    /\ IF PrepareSucceeds(db)
       THEN /\ txn' = BeginTransaction(db)
            /\ pc' = "pass1"
            /\ UNCHANGED <<db, batch, result, pre, again, outsideImport>>
       ELSE Abort

InsertElements ==
    /\ pc = "pass1"
    /\ LET r == Pass1(txn, batch, get_table_columns(db, "elements", ElementsColumns)) IN
       IF r.ok
       THEN /\ txn' = r.ta
            /\ pc' = "delete"
            /\ UNCHANGED <<db, batch, result, pre, again, outsideImport>>
       ELSE Abort

RemoveObsolete ==
    /\ pc = "delete"
    /\ txn' = ObsoleteDelete(txn)
    /\ pc' = "pass2"
    /\ UNCHANGED <<db, batch, result, pre, again, outsideImport>>

InsertRelations ==
    /\ pc = "pass2"
    /\ LET r == Pass2(txn, batch, get_table_columns(db, "extended_properties", ExtendedColumns)) IN
       IF r.ok
       THEN /\ txn' = r.ta
            /\ pc' = "commit"
            /\ UNCHANGED <<db, batch, result, pre, again, outsideImport>>
       ELSE Abort

Commit ==
    /\ pc = "commit"
    /\ IF ForeignKeysHold(txn)
       THEN /\ db' = Committed(db, txn)
            /\ txn' = NoTransaction
            /\ pc' = "done"
            /\ result' = "ok"
            /\ UNCHANGED <<batch, pre, again, outsideImport>>
       ELSE Abort

\* the same file is imported once more, right after its successful import
ImportAgain ==
    /\ pc = "done"
    /\ result = "ok"
    /\ BagCardinality(db.extended_properties) <= MaxExtRows
    /\ pc' = "prepare"
    /\ pre' = db
    /\ result' = "none"
    /\ again' = TRUE
    /\ UNCHANGED <<db, txn, batch, outsideImport>>

\* the process ends
Exit ==
    /\ pc = "done"
    /\ pc' = "idle"
    /\ batch' = <<>>
    /\ result' = "none"
    /\ pre' = db
    /\ again' = FALSE
    /\ UNCHANGED <<db, txn, outsideImport>>

ImportNext ==
    \/ InitDb
    \/ \E b \in Batches : StartImport(b)
    \/ Prepare
    \/ InsertElements
    \/ RemoveObsolete
    \/ InsertRelations
    \/ Commit
    \/ ImportAgain
    \/ Exit

SpecImport == ImportInit /\ [][ImportNext]_vars

(***************************************************************************)
(* Properties of the import                                                *)
(***************************************************************************)
\* the ids of the elements of a batch
BatchIds(b) == {b[i].element.id : i \in {k \in DOMAIN b : b[k].ok}}

\* the relation rows an element asserts: one per relation-shaped attribute
\* value, one per entry of an array of relation-shaped values
RelationsCarriedBy(element) ==
    UNION { LET j == element.rest[n] IN
            IF j.t = "obj" /\ j.o.idKind = "str" /\ j.o.extra = 0
            THEN {<<n, element.id, j.o.id>>}
            ELSE IF j.t = "arr" /\ \A i \in DOMAIN j.a :
                        j.a[i].t = "obj" /\ j.a[i].o.idKind = "str" /\ j.a[i].o.extra = 0
            THEN {<<n, element.id, j.a[i].o.id>> : i \in DOMAIN j.a}
            ELSE {} : n \in AttrNames }

RelationsCarried(b, id) ==
    UNION {RelationsCarriedBy(b[i].element) : i \in {k \in DOMAIN b : b[k].ok /\ b[k].element.id = id}}

Finished == pc = "done"
Succeeded == pc = "done" /\ result = "ok"
Failed == pc = "done" /\ result = "err"

\* C1: importing a batch a second time, right after its successful import,
\* succeeds and leaves all three tables with the same rows in the same number
C1_Idempotence == (Finished /\ again) => (result = "ok" /\ db = pre)

\* C2: after a successful import, the relations rows whose origin is an element
\* of the batch are exactly the relations that element carries in the batch
C2_Supersession ==
    Succeeded =>
        \A id \in BatchIds(batch) :
            {r \in db.relations : r[2] = id} = RelationsCarried(batch, id)

\* a relation of a re-imported element, not carried by the batch, is gone
C2_Witness ==
    /\ Succeeded
    /\ \E r \in pre.relations : r[2] \in BatchIds(batch) /\ r \notin db.relations

\* C3: an import that ends in an error leaves the three tables as they were
\* when it was called; the store does not change before the commit either
C3_Atomicity ==
    /\ Failed => db = pre
    /\ pc \in {"prepare", "pass1", "delete", "pass2", "commit"} => db = pre

HasTables(store) == AllTables \subseteq store.tables

\* an import failed after its first pass had written every element of the batch
C3_Witness ==
    /\ Failed
    /\ HasTables(pre)
    /\ batch # <<>>
    /\ \A i \in DOMAIN batch : batch[i].ok /\ batch[i].element.rest["isAbstract"].t = "absent"

\* two elements of the batch share an id and differ in content
HasConflict(b) ==
    \E i, j \in DOMAIN b :
        /\ b[i].ok /\ b[j].ok
        /\ b[i].element.id = b[j].element.id
        /\ b[i].element # b[j].element

\* C4: a batch with two differing elements of one id is rejected, and no row
\* is written
C4_ConflictRefusal == (Finished /\ HasConflict(batch)) => (result = "err" /\ db = pre)

\* C5: a successful import leaves alone the elements rows, the relations rows
\* (by origin) and the extended_properties rows (by owner) of the elements
\* that are not in the batch, and no import removes an element id
C5_Frame ==
    /\ Succeeded =>
        LET out(id) == id \notin BatchIds(batch) IN
        /\ {r \in db.elements : out(r.id)} = {r \in pre.elements : out(r.id)}
        /\ {r \in db.relations : out(r[2])} = {r \in pre.relations : out(r[2])}
        /\ BagWithout(db.extended_properties, LAMBDA x : ~out(x.id))
             = BagWithout(pre.extended_properties, LAMBDA x : ~out(x.id))
    /\ ElementIds(pre) \subseteq ElementIds(db)

\* a relation of an element outside the batch, pointing at an element of the
\* batch, and an extended property of an element outside the batch, are kept
C5_Witness ==
    /\ Succeeded
    /\ \E r \in pre.relations : r[2] \notin BatchIds(batch) /\ r[3] \in BatchIds(batch)
    /\ \E x \in DOMAIN pre.extended_properties : x.id \notin BatchIds(batch)

Targets(b) == {r[3] : r \in UNION {RelationsCarried(b, id) : id \in BatchIds(b)}}

\* nothing but a missing target can make the import of b fail
WellFormed(b, store) ==
    /\ HasTables(store)
    /\ \A i \in DOMAIN b :
        /\ b[i].ok
        /\ b[i].element.rest["isAbstract"].t = "absent"
        /\ \A r \in RelationsCarriedBy(b[i].element) : r[1] \in AllowedRelationNames

C7_WitnessDangling ==
    /\ Failed
    /\ WellFormed(batch, pre)
    /\ ~(Targets(batch) \subseteq BatchIds(batch) \cup ElementIds(pre))

C8_MissingSchema ==
    (Finished /\ pre.tables = {}) => (result = "err" /\ db = EmptyStore({}))

C8_Witness == Failed /\ pre.tables = {} /\ batch # <<>> /\ \A i \in DOMAIN batch : batch[i].ok

(***************************************************************************)
(* Properties of the streaming decoder                                     *)
(***************************************************************************)
\* the places of the elements of a document, in document order
RECURSIVE ElementsFrom(_, _)
ElementsFrom(d, i) ==
    IF i > Len(d) THEN <<>>
    ELSE IF d[i] = "e" THEN <<i>> \o ElementsFrom(d, i + 1)
    ELSE ElementsFrom(d, i + 1)

ElementPlaces(d) == ElementsFrom(d, 1)

\* a document without its whitespace (space, tab, LF, CR and form feed)
Stripped(d) == SelectSeq(d, LAMBDA byte : byte \notin {"sp", "ff"})

\* t starts with "[" and n elements separated by commas
StartsArray(t, n) ==
    /\ Len(t) >= (IF n = 0 THEN 1 ELSE 2 * n)
    /\ t[1] = "["
    /\ \A k \in 1..n : t[2 * k] = "e"
    /\ \A k \in 1..(n - 1) : t[2 * k + 1] = ","

\* the document is an array of n elements, with whitespace anywhere around
\* brackets, commas and elements
IsArrayOf(d, n) ==
    LET t == Stripped(d) IN
    /\ StartsArray(t, n)
    /\ Len(t) = (IF n = 0 THEN 2 ELSE 2 * n + 1)
    /\ t[Len(t)] = "]"

IsArray(d) == \E n \in 0..Len(d) : IsArrayOf(d, n)

\* no form feed stands in the whitespace that follows a comma
NoFormFeedAfterComma(d) ==
    ~ \E i, j \in DOMAIN d :
        /\ i < j
        /\ d[i] = ","
        /\ d[j] = "ff"
        /\ \A k \in (i + 1)..(j - 1) : d[k] \in {"sp", "ff"}

Decoded == status # "running"

\* C9, as stated: an array of n elements with any ASCII whitespace around
\* brackets and commas is decoded into its n elements, in order, and then ends
C9_AnyAsciiWhitespace ==
    (Decoded /\ IsArray(doc)) => (status = "ended" /\ yielded = ElementPlaces(doc))

\* C9, amended: the same, for whitespace that has no form feed between a
\* comma and the element that follows it
C9_WellFormedDecode ==
    (Decoded /\ IsArray(doc) /\ NoFormFeedAfterComma(doc))
        => (status = "ended" /\ yielded = ElementPlaces(doc))

\* two elements were decoded from a document with whitespace (form feed
\* included) around its brackets or commas
C9_Witness ==
    /\ status = "ended"
    /\ IsArray(doc)
    /\ Len(yielded) = 2
    /\ \E i \in DOMAIN doc : doc[i] = "ff"

\* the decoder failed after yielding the first n (or, with a form feed behind
\* a comma, fewer) elements, in order
FailedAfter(n) ==
    /\ status = "failed"
    /\ Len(yielded) <= n
    /\ yielded = SubSeq(ElementPlaces(doc), 1, Len(yielded))
    /\ NoFormFeedAfterComma(doc) => Len(yielded) = n

\* C10: the decoder yields an error, after the elements in front of it, when
\* the first byte that is no whitespace is not "[", when an element is
\* followed by neither "," nor "]", when a comma is followed by "]", and when
\* the input ends before the closing bracket
C10_MalformedDecode ==
    Decoded =>
        LET t == Stripped(doc) IN
        /\ (t # <<>> /\ t[1] # "[") => FailedAfter(0)
        /\ t = <<>> => FailedAfter(0)
        /\ \A n \in 0..Len(t) :
            /\ (n >= 1 /\ StartsArray(t, n) /\ Len(t) > 2 * n /\ t[2 * n + 1] \notin {",", "]"})
                  => FailedAfter(n)
            /\ (n >= 1 /\ StartsArray(t, n) /\ Len(t) > 2 * n + 1
                       /\ t[2 * n + 1] = "," /\ t[2 * n + 2] = "]")
                  => FailedAfter(n)
            /\ (StartsArray(t, n) /\ Len(t) = (IF n = 0 THEN 1 ELSE 2 * n)) => FailedAfter(n)
            /\ (n >= 1 /\ StartsArray(t, n) /\ Len(t) = 2 * n + 1 /\ t[2 * n + 1] = ",")
                  => FailedAfter(n)

\* a trailing comma: the error came after both elements had been yielded
C10_Witness ==
    /\ status = "failed"
    /\ Stripped(doc) = <<"[", "e", ",", "e", ",", "]">>
    /\ yielded = <<2, 4>>


(***************************************************************************)
(* CloneableJsonArrayStreamIterator (util.rs 61-99): the iterator over a   *)
(* file and its clone, as the two passes of import_from_iter use them      *)
(***************************************************************************)

\* (a clone that goes on reading where the original stands)
clone_sharing_reader(self) == [self EXCEPT !.yielded = <<>>]

\* new(file_path): File::open, a BufReader and iter_json_array on top of it
CloneableJsonArrayStreamIterator_new ==
    [pos |-> 1, at_start |-> FALSE, yielded |-> <<>>, status |-> "running"]

\* clone(&self): Self::new(&self.file)
CloneableJsonArrayStreamIterator_clone(self) ==
    CloneableJsonArrayStreamIterator_new

\* the first iterator, as a value
Original ==
    [pos |-> pos, at_start |-> at_start, yielded |-> yielded, status |-> status]

CloneDocuments == UNION {[1..n -> Bytes] : n \in 0..MaxCloneDocLen}

CloneInit ==
    /\ doc \in CloneDocuments
    /\ pos = 1
    /\ at_start = FALSE
    /\ yielded = <<>>
    /\ status = "running"
    /\ CloneIdle
    /\ ImportIdle /\ FetchIdle /\ FuseIdle /\ SchemaIdle
    /\ ProbeIdle /\ ClassifyIdle

\* elements.clone(): born records how far the original had got
CloneIter ==
    /\ LET c == CloneableJsonArrayStreamIterator_clone(Original) IN
       clone' = [pos |-> c.pos, at_start |-> c.at_start, yielded |-> c.yielded,
                 status |-> c.status, born |-> Len(yielded)]
    /\ UNCHANGED <<decodeVars, outsideClone>>

\* Iterator::next on the clone: self.iter.next()
PullClone ==
    /\ clone.status = "running"
    /\ LET r == yield_next_obj(doc, clone.pos, clone.at_start) IN
       clone' = [clone EXCEPT
                   !.at_start = TRUE,
                   !.pos = r.pos,
                   !.yielded = IF r.kind = "some" THEN Append(@, r.value) ELSE @,
                   !.status = CASE r.kind = "some" -> "running"
                                [] r.kind = "none" -> "ended"
                                [] r.kind = "err" -> "failed"]
    /\ UNCHANGED <<decodeVars, outsideClone>>

CloneNext == PullNext \/ CloneIter \/ PullClone

SpecClone == CloneInit /\ [][CloneNext]_vars

\* what one uninterrupted decode of d, from its first byte, yields
RECURSIVE Traverse(_, _, _, _)
Traverse(d, p, started, acc) ==
    LET r == yield_next_obj(d, p, started) IN
    CASE r.kind = "some" -> Traverse(d, r.pos, TRUE, Append(acc, r.value))
      [] r.kind = "none" -> [yielded |-> acc, status |-> "ended"]
      [] r.kind = "err" -> [yielded |-> acc, status |-> "failed"]

Traversal(d) == Traverse(d, 1, FALSE, <<>>)

IsPrefix(a, b) == Len(a) <= Len(b) /\ \A i \in DOMAIN a : a[i] = b[i]

\* an iterator is somewhere on the one traversal of the document
OnTraversal(it) ==
    LET t == Traversal(doc) IN
    /\ IsPrefix(it.yielded, t.yielded)
    /\ it.status # "running" => (it.yielded = t.yielded /\ it.status = t.status)

\* C11: a clone decodes the same file independently from its first element:
\* however far the original has got, and however the two are advanced in
\* turn, each of them yields the one element sequence of the file, so the
\* two passes of an import see the same sequence.
C11_RestartableClone ==
    /\ OnTraversal(Original)
    /\ clone.status # "absent" => OnTraversal(clone)
    /\ (status # "running" /\ clone.status \notin {"absent", "running"})
          => (clone.yielded = yielded /\ clone.status = status)

\* C11: the clone was made after the original had yielded an element, and
\* has yielded both elements of the file while the original stands at one
C11_Witness ==
    /\ clone.born = 1
    /\ clone.status = "ended"
    /\ Len(clone.yielded) = 2
    /\ Len(yielded) = 1

(***************************************************************************)
(* fetch_from_url_to_file (fetch.rs 262-396): the paginator task and the   *)
(* decoder task, joined by a bounded channel                               *)
(***************************************************************************)

\* tokio::sync::mpsc::channel::<Response>(32)
ChannelCapacity == 32

\* how many elements the body of a page may hold
PageSizes == {0, 1, 2}

\* the servers: up to MaxPages pages, each linking to the next one; the last
\* page carries no next link, or (loops) one that leads to itself. A server
\* whose links never end and that never serves an empty page keeps the fetch
\* running for ever and is left out.
Chains ==
    {c \in [pages : UNION {[1..n -> PageSizes] : n \in 1..MaxPages},
            loops : BOOLEAN] :
        c.loops => \E i \in DOMAIN c.pages : c.pages[i] = 0}

\* resp.json(): the elements of page p, each named by its page and place
PageBody(c, p) == [k \in 1..c.pages[p] |-> <<p, k>>]

\* the Link header of page p: the page rel="next" leads to (0: no such link)
NextLink(c, p) ==
    IF p < Len(c.pages) THEN p + 1 ELSE IF c.loops THEN p ELSE 0

\* (a channel that takes any number of responses)
AlwaysRoom(ch) == TRUE

\* Sender::send completes once the channel has a free slot
HasRoom(ch) == Len(ch) < ChannelCapacity

\* (a sender that never learns that the receiver is gone)
never_closed(d) == FALSE

\* the channel is closed once the decoder task has ended and dropped resp_rx
is_closed(d) == d \in {"done", "failed"}

\* resp_tx is dropped once the paginator task has ended
sender_dropped(p) == p \in {"done", "failed"}

\* the fault of the server strikes at page p: "transport" fails http_get,
\* "link" makes the Link header or its next url unparsable, "body" makes
\* resp.json() fail
Strikes(fault, kinds, p) == fault.kind \in kinds /\ fault.page = p


\* (a receiver that hands out the newest response)
recv_newest(ch) == [msg |-> ch[Len(ch)], rest |-> SubSeq(ch, 1, Len(ch) - 1)]

\* Receiver::recv on a channel that holds a response: the oldest one
recv(ch) == [msg |-> Head(ch), rest |-> Tail(ch)]

FetchInit ==
    /\ chain \in Chains
    /\ maybe_url = 1
    /\ resp = 0
    /\ channel = <<>>
    /\ elements = <<>>
    /\ pages_count = 0
    /\ ptask = "request"
    /\ dtask = "recv"
    /\ parsing = 0
    /\ fetch_pc = "tasks"
    /\ given = [fault |-> NoFault, dump |-> NoFile]
    /\ effects = [NoEffects EXCEPT !.monitor = "running"]
    /\ ImportIdle /\ DecoderIdle /\ CloneIdle /\ FuseIdle /\ SchemaIdle
    /\ ProbeIdle /\ ClassifyIdle

\* paginator, fetch.rs 316-336: take the url, get the page, note its next link
Request ==
    /\ ptask = "request"
    /\ ~Strikes(given.fault, {"transport", "link"}, maybe_url)
    /\ resp' = maybe_url
    /\ maybe_url' = NextLink(chain, maybe_url)
    /\ ptask' = "send"
    /\ UNCHANGED <<chain, channel, elements, pages_count, dtask, parsing,
                   fetch_pc, given, effects, outsideFetch>>

\* paginator, fetch.rs 319-333: http_get, to_str, parse_with_rel or
\* Url::parse returns an error, which ends the task and drops resp_tx
RequestFails ==
    /\ ptask = "request"
    /\ Strikes(given.fault, {"transport", "link"}, maybe_url)
    /\ ptask' = "failed"
    /\ UNCHANGED <<chain, maybe_url, resp, channel, elements, pages_count,
                   dtask, parsing, fetch_pc, given, effects, outsideFetch>>

\* paginator, fetch.rs 339-346: the send completes, the page is counted, and
\* the loop goes on if there is a next url
Send ==
    /\ ptask = "send"
    /\ ~is_closed(dtask)
    /\ HasRoom(channel)
    /\ channel' = Append(channel, resp)
    /\ pages_count' = pages_count + 1
    /\ resp' = 0
    /\ ptask' = IF maybe_url = 0 THEN "done" ELSE "request"
    /\ UNCHANGED <<chain, maybe_url, elements, dtask, parsing, fetch_pc, given, effects,
                   outsideFetch>>

\* paginator, fetch.rs 339-342: the receiver is gone, send returns an error
SendFails ==
    /\ ptask = "send"
    /\ is_closed(dtask)
    /\ resp' = 0
    /\ ptask' = "done"
    /\ effects' = [effects EXCEPT !.send_errors = @ + 1]
    /\ UNCHANGED <<chain, maybe_url, channel, elements, pages_count, dtask,
                   parsing, fetch_pc, given, outsideFetch>>

\* decoder, fetch.rs 295: recv returns the oldest response
Receive ==
    /\ dtask = "recv"
    /\ channel # <<>>
    /\ parsing' = recv(channel).msg
    /\ channel' = recv(channel).rest
    /\ dtask' = "parse"
    /\ UNCHANGED <<chain, maybe_url, resp, elements, pages_count, ptask,
                   fetch_pc, given, effects, outsideFetch>>

\* decoder, fetch.rs 295: the channel is empty and the sender is dropped, so
\* recv returns None and the loop ends
ReceiveNone ==
    /\ dtask = "recv"
    /\ channel = <<>>
    /\ sender_dropped(ptask)
    /\ dtask' = "done"
    /\ UNCHANGED <<chain, maybe_url, resp, channel, elements, pages_count,
                   ptask, parsing, fetch_pc, given, effects, outsideFetch>>

\* decoder, fetch.rs 297-305: the body is decoded; an empty page ends the
\* task, which drops resp_rx and the responses still in the channel
Parse ==
    /\ dtask = "parse"
    /\ ~Strikes(given.fault, {"body"}, parsing)
    /\ LET new_elements == PageBody(chain, parsing) IN
       IF new_elements = <<>>
       THEN /\ dtask' = "done"
            /\ channel' = <<>>
            /\ UNCHANGED elements
       ELSE /\ dtask' = "recv"
            /\ elements' = elements \o new_elements
            /\ UNCHANGED channel
    /\ parsing' = 0
    /\ UNCHANGED <<chain, maybe_url, resp, pages_count, ptask, fetch_pc, given, effects,
                   outsideFetch>>

\* decoder, fetch.rs 297: resp.json() returns an error, which ends the task
\* and drops resp_rx and the responses still in the channel
ParseFails ==
    /\ dtask = "parse"
    /\ Strikes(given.fault, {"body"}, parsing)
    /\ dtask' = "failed"
    /\ channel' = <<>>
    /\ parsing' = 0
    /\ UNCHANGED <<chain, maybe_url, resp, elements, pages_count, ptask,
                   fetch_pc, given, effects, outsideFetch>>

\* (a join that takes the decoder's list whatever the decoder returned)
joined_ok(p, d) == IF p = "failed" THEN "paginator error" ELSE "ok"

\* fetch.rs 366-367: the first ? returns the paginator's error, the second
\* one the decoder's
joined(p, d) ==
    IF p = "failed" THEN "paginator error"
    ELSE IF d = "failed" THEN "decoder error"
    ELSE "ok"

\* (a dump that is written before the tasks are joined)
written_before_join(outcome, file, fetched) ==
    [exists |-> TRUE, kept |-> <<>>, fetched |-> fetched]

\* fetch.rs 379-387: File::create truncates the dump file, and the fetched
\* elements are written to it
written(outcome, file, fetched) ==
    IF outcome = "ok"
    THEN [exists |-> TRUE, kept |-> <<>>, fetched |-> fetched]
    ELSE file

\* fetch.rs 366-393: the paginator is joined, then the decoder; an error of
\* either returns at once. Otherwise the monitor is aborted, the dump is
\* written and the elements are imported.
Join ==
    /\ fetch_pc = "tasks"
    /\ \/ ptask = "failed"
       \/ ptask = "done" /\ dtask \in {"done", "failed"}
    /\ fetch_pc' = "returned"
    /\ LET outcome == joined(ptask, dtask) IN
       effects' = [effects EXCEPT
           !.outcome = outcome,
           !.monitor = IF outcome = "ok" THEN "aborted" ELSE @,
           !.file = written(outcome, @, elements),
           !.imported = (outcome = "ok")]
    /\ UNCHANGED <<chain, maybe_url, resp, channel, elements, pages_count,
                   ptask, dtask, parsing, given, outsideFetch>>

Paginator == Request \/ Send \/ SendFails
Decoder == Receive \/ ReceiveNone \/ Parse

FetchNext == Request \/ Send \/ SendFails \/ Receive \/ ReceiveNone \/ Parse \/ Join

SpecFetch == FetchInit /\ [][FetchNext]_vars

\* the tokio runtime polls every spawned task that can make progress
SpecFetchFair ==
    /\ FetchInit
    /\ [][FetchNext]_vars
    /\ WF_vars(Paginator)
    /\ WF_vars(Decoder)
    /\ WF_vars(Join)

(***************************************************************************)
(* fetch_from_url_to_file as a whole (fetch.rs 262-396): the dump file is  *)
(* checked, the tasks are spawned and joined, the dump is written and the  *)
(* elements are imported; the server may have a fault                      *)
(***************************************************************************)

\* the elements of a dump file: an id and the rest of the content
DumpElements == [id : {"a", "b"}, content : {1, 2}]
Slices == UNION {[1..n -> DumpElements] : n \in 0..MaxDumpLen}
Dumps == {NoFile} \cup {[exists |-> TRUE, elements |-> s] : s \in Slices}

Faults ==
    {NoFault} \cup [kind : {"transport", "link", "body"}, page : 1..MaxServed]

\* the id map is a set of <<id, index>> pairs; indices count from 1 here
\* and from 0 in the source
\* (a check that refuses every second element of an id)
RECURSIVE check_ids_from(_, _, _)
check_ids_from(slice, map, idx) ==
    IF idx > Len(slice) THEN [ok |-> TRUE, map |-> map]
    ELSE IF \E m \in map : m[1] = slice[idx].id
         THEN [ok |-> FALSE, map |-> map]
         ELSE check_ids_from(slice, map \cup {<<slice[idx].id, idx>>}, idx + 1)

check_for_colliding_ids(slice, element_id_idx_map) ==
    check_ids_from(slice, element_id_idx_map, 1)

\* fetch.rs 226-241, from element idx on
RECURSIVE check_from(_, _, _)
check_from(slice, map, idx) ==
    IF idx > Len(slice) THEN [ok |-> TRUE, map |-> map]
    ELSE LET new_element == slice[idx]
             hits == {m \in map : m[1] = new_element.id}
         IN  IF hits = {}
             THEN check_from(slice, map \cup {<<new_element.id, idx>>}, idx + 1)
             ELSE LET existing_element_idx == (CHOOSE m \in hits : TRUE)[2] IN
                  IF slice[existing_element_idx] = new_element
                  THEN check_from(slice, map, idx + 1)
                  ELSE [ok |-> FALSE, map |-> map]

\* fetch.rs 219-248
check_for_conflicting_elements(slice, element_id_idx_map) ==
    check_from(slice, element_id_idx_map, 1)

\* the servers with at most MaxServed pages
ServedChains == {c \in Chains : Len(c.pages) <= MaxServed}

\* a call of fetch_from_url_to_file with a path and a connection. The dump
\* file is absent or holds any slice; one that holds several elements meets
\* a server of one page without fault, and a server with a fault meets no
\* dump file or one that holds an element.
FetchFileInit ==
    /\ chain \in ServedChains
    /\ given \in [fault : Faults, dump : Dumps]
    /\ given.fault.page <= Len(chain.pages)
    /\ Len(given.dump.elements) > 1 =>
           given.fault = NoFault /\ Len(chain.pages) = 1
    /\ given.fault # NoFault /\ given.dump.exists =>
           given.dump.elements = <<[id |-> "a", content |-> 1]>>
    /\ effects = [NoEffects EXCEPT !.file = FileOf(given.dump)]
    /\ maybe_url = 1
    /\ resp = 0
    /\ channel = <<>>
    /\ elements = <<>>
    /\ pages_count = 0
    /\ ptask = "idle"
    /\ dtask = "idle"
    /\ parsing = 0
    /\ fetch_pc = "start"
    /\ ImportIdle /\ DecoderIdle /\ CloneIdle /\ FuseIdle /\ SchemaIdle
    /\ ProbeIdle /\ ClassifyIdle

\* fetch.rs 272-364: a dump file that exists is read and checked, and a
\* conflict returns the error; otherwise the three tasks are spawned
Start ==
    /\ fetch_pc = "start"
    /\ LET checked ==
               IF given.dump.exists
               THEN check_for_conflicting_elements(given.dump.elements, {})
               ELSE [ok |-> TRUE, map |-> {}]
       IN  IF checked.ok
           THEN /\ fetch_pc' = "tasks"
                /\ ptask' = "request"
                /\ dtask' = "recv"
                /\ effects' = [effects EXCEPT !.monitor = "running",
                                              !.id_map = checked.map]
           ELSE /\ fetch_pc' = "returned"
                /\ effects' = [effects EXCEPT !.outcome = "conflict"]
                /\ UNCHANGED <<ptask, dtask>>
    /\ UNCHANGED <<chain, maybe_url, resp, channel, elements, pages_count,
                   parsing, given, outsideFetch>>

FetchFileNext ==
    \/ Start
    \/ Request \/ RequestFails \/ Send \/ SendFails
    \/ Receive \/ ReceiveNone \/ Parse \/ ParseFails
    \/ Join

SpecFetchFile == FetchFileInit /\ [][FetchFileNext]_vars

\* the tokio runtime polls every spawned task that can make progress, and
\* the caller goes on when the task it awaits has ended
SpecFetchFileFair ==
    /\ FetchFileInit
    /\ [][FetchFileNext]_vars
    /\ WF_vars(Start)
    /\ WF_vars(Paginator \/ RequestFails)
    /\ WF_vars(Decoder \/ ParseFails)
    /\ WF_vars(Join)

(***************************************************************************)
(* Properties of fetch_from_url_to_file as a whole                         *)
(***************************************************************************)

\* C32: when the only fault of the server is an undecodable page body, the
\* paginator never fails; once the decoder has failed the channel is dropped
\* (nothing is in it any more), at most one send is attempted and fails, the
\* paginator has ended when the fetch returns, and the fetch does return,
\* with the decoder's error
C32_DecoderFailureFolds ==
    /\ [](given.fault.kind = "body" =>
            /\ ptask # "failed"
            /\ effects.send_errors <= 1
            /\ dtask = "failed" => channel = <<>> /\ is_closed(dtask)
            /\ fetch_pc = "returned" => ptask = "done"
            /\ fetch_pc = "returned" /\ dtask = "failed" =>
                   effects.outcome = "decoder error")
    /\ (given.fault.kind = "body" /\ dtask = "failed") ~>
           (fetch_pc = "returned" /\ effects.outcome = "decoder error")

\* the decoder failed while the paginator was about to send; the send
\* failed, and the fetch has returned the decoder's error
C32_Witness ==
    /\ given.fault.kind = "body"
    /\ fetch_pc = "returned"
    /\ effects.outcome = "decoder error"
    /\ effects.send_errors = 1
    /\ ptask = "done"

\* C33: whenever the fetch has returned after the tasks were spawned
\* (success, paginator failure or decoder failure), the monitor task has
\* been aborted
C33_MonitorCancelled ==
    fetch_pc = "returned"
        /\ effects.outcome \in {"ok", "paginator error", "decoder error"}
    => effects.monitor = "aborted"

\* C34: a fetch that returned the paginator's or the decoder's error has
\* left the dump file as it was before the call (not created, not truncated,
\* nothing written) and has not imported anything into the store
C34_FailedFetchNoEffect ==
    fetch_pc = "returned"
        /\ effects.outcome \in {"paginator error", "decoder error"}
    => /\ effects.file = FileOf(given.dump)
       /\ ~effects.imported

\* the second page was undecodable after the first one had been decoded: the
\* fetch returned the error, and the dump file that existed still holds its
\* element
C34_Witness ==
    /\ fetch_pc = "returned"
    /\ effects.outcome = "decoder error"
    /\ elements # <<>>
    /\ given.dump.exists
    /\ effects.file.kept = given.dump.elements
    /\ effects.file.kept # <<>>

\* two elements of the slice have the same id and different content
Conflicting(slice) ==
    \E i, j \in DOMAIN slice :
        slice[i].id = slice[j].id /\ slice[i] # slice[j]

\* each id of the slice with the index of its first occurrence
FirstOccurrences(slice) ==
    {<<slice[i].id, i>> : i \in {k \in DOMAIN slice :
                                   \A j \in 1..(k - 1) : slice[j].id # slice[k].id}}

\* C35: when the dump file exists, the check (started with an empty map)
\* fails exactly if two of its elements have the same id and different
\* content; when it succeeds the map holds each id with the index of its
\* first occurrence; when it fails the fetch has returned the error and no
\* task was spawned, no request sent, nothing written to the file and
\* nothing imported
C35_ConflictCheck ==
    given.dump.exists /\ fetch_pc # "start" =>
        /\ effects.outcome = "conflict" <=> Conflicting(given.dump.elements)
        /\ ~Conflicting(given.dump.elements) =>
               effects.id_map = FirstOccurrences(given.dump.elements)
        /\ Conflicting(given.dump.elements) =>
               /\ fetch_pc = "returned"
               /\ ptask = "idle" /\ dtask = "idle" /\ effects.monitor = "none"
               /\ resp = 0 /\ pages_count = 0 /\ channel = <<>>
               /\ effects.file = FileOf(given.dump)
               /\ ~effects.imported

\* a dump whose last element differs from the first one of the same id has
\* made the fetch fail
C35_Witness ==
    /\ given.dump.exists
    /\ Len(given.dump.elements) = MaxDumpLen
    /\ given.dump.elements[1].id = given.dump.elements[MaxDumpLen].id
    /\ given.dump.elements[1] # given.dump.elements[MaxDumpLen]
    /\ fetch_pc = "returned"
    /\ effects.outcome = "conflict"

\* C36: after a successful fetch whose dump file existed before, the file
\* holds the elements it held before as well as the fetched elements
C36_AppendsToDump ==
    given.dump.exists /\ fetch_pc = "returned" /\ effects.outcome = "ok" =>
        /\ effects.file.exists
        /\ effects.file.kept = given.dump.elements
        /\ effects.file.fetched = elements

\* what the code does instead: after a successful fetch the file holds the
\* fetched elements and nothing else
DumpReplaced ==
    fetch_pc = "returned" /\ effects.outcome = "ok" =>
        effects.file = [exists |-> TRUE, kept |-> <<>>, fetched |-> elements]

\* the part of C33 that holds: the monitor is aborted on the path on which
\* both tasks returned Ok
MonitorCancelledOnSuccess ==
    fetch_pc = "returned" /\ effects.outcome = "ok" => effects.monitor = "aborted"

(***************************************************************************)
(* Properties of the fetch pipeline                                        *)
(***************************************************************************)
RECURSIVE BodiesUpTo(_, _)
BodiesUpTo(c, n) == IF n = 0 THEN <<>> ELSE BodiesUpTo(c, n - 1) \o PageBody(c, n)

\* the first empty page in request order (one past the last page if none)
FirstEmpty(c) ==
    IF \E i \in DOMAIN c.pages : c.pages[i] = 0
    THEN CHOOSE i \in DOMAIN c.pages :
            c.pages[i] = 0 /\ \A j \in 1..(i - 1) : c.pages[j] # 0
    ELSE Len(c.pages) + 1

\* the bodies of the pages requested before the first empty page, in order
Expected(c) == BodiesUpTo(c, FirstEmpty(c) - 1)

ThreePagesThenEmpty(c) ==
    /\ Len(c.pages) = 4
    /\ \A i \in 1..3 : c.pages[i] # 0
    /\ c.pages[4] = 0

\* C12: a fetch over three non-empty pages followed by an empty page returns
\* exactly the elements of the three pages and counts exactly 3 pages.
C12_TerminationCount ==
    (fetch_pc = "returned" /\ ThreePagesThenEmpty(chain))
        => (elements = BodiesUpTo(chain, 3) /\ pages_count = 3)

\* C13: under every interleaving the element list is the concatenation, in
\* request order, of the bodies of the pages fetched before the first empty
\* page: while the tasks run it is a prefix of that list, and on return it is
\* the whole of it.
C13_PageOrder ==
    /\ IsPrefix(elements, Expected(chain))
    /\ fetch_pc = "returned" => elements = Expected(chain)

\* C13: a fetch returned the two elements of page 1 and then the element of
\* page 2, the third page being empty
C13_Witness ==
    /\ fetch_pc = "returned"
    /\ Len(chain.pages) >= 3
    /\ chain.pages[1] = 2 /\ chain.pages[2] = 1 /\ chain.pages[3] = 0
    /\ elements = << <<1, 1>>, <<1, 2>>, <<2, 1>> >>

\* responses the paginator has got from the server and the decoder has not
\* yet received: those in the channel and the one the paginator holds
Outstanding == Len(channel) + (IF resp # 0 THEN 1 ELSE 0)

\* C14 as stated: at most 32 responses are in the channel, and while the
\* channel is full the paginator issues no further request (so it holds no
\* response that it got while the channel was full).
C14_NoRequestWhileFull ==
    /\ Len(channel) <= ChannelCapacity
    /\ Len(channel) = ChannelCapacity => resp = 0

\* C14: at most 32 responses are in the channel; the paginator issues at most
\* one request while the channel is full, so at most 33 responses are
\* outstanding; holding that response it can neither complete the send nor
\* issue a request until the decoder has received a response.
C14_Backpressure ==
    /\ Len(channel) <= ChannelCapacity
    /\ Outstanding <= ChannelCapacity + 1
    /\ (Len(channel) = ChannelCapacity /\ resp # 0)
          => (ptask = "send" /\ ~ENABLED Paginator)

\* C14: the channel is full, the paginator holds one more response, and the
\* decoder has not stopped
C14_Witness ==
    /\ Len(channel) = ChannelCapacity
    /\ resp # 0
    /\ ptask = "send"
    /\ dtask = "recv"

\* C15: under fair scheduling both tasks end and the fetch returns, for every
\* server whose page chain ends without a next link or contains an empty
\* page, also when links go on after the empty page and when the channel is
\* full at the moment the decoder stops.
C15_PipelineLiveness == <>(fetch_pc = "returned")

\* C15: a fetch returned from a server that goes on offering next links,
\* after the paginator had filled the channel
C15_Witness ==
    /\ fetch_pc = "returned"
    /\ chain.loops
    /\ pages_count >= ChannelCapacity

(***************************************************************************)
(* SqlRepresentation and its fusion (json_schema_to_sql/sql.rs 13-141)     *)
(***************************************************************************)
Column(unique, null, id_foreign_key_constraint, ty) ==
    [k |-> "Column", unique |-> unique, null |-> null,
     id_foreign_key_constraint |-> id_foreign_key_constraint, ty |-> ty]
RelationsTable ==
    [k |-> "RelationsTable", unique |-> FALSE, null |-> FALSE,
     id_foreign_key_constraint |-> FALSE, ty |-> ""]
ExtendedPropertiesTable ==
    [k |-> "ExtendedPropertiesTable", unique |-> FALSE, null |-> FALSE,
     id_foreign_key_constraint |-> FALSE, ty |-> ""]

\* the column types json_schema_type_to_sql_type produces; "TEXT CHECK" is
\* any of the TEXT CHECK(...) types
ColumnTypes == {"INTEGER", "REAL", "TEXT", "TEXT CHECK"}

\* ty.starts_with("TEXT")
StartsWithText(ty) == ty \in {"TEXT", "TEXT CHECK"}

\* the errors of fuse, by the text of their message
FuseErrors == {"differing id_foreign_key_constraint", "differing type",
               "uniqueness", "foreign key not TEXT", "impossible"}

\* the messages whose text holds {column_name:?}
NamesColumn(err) == err \in {"differing id_foreign_key_constraint", "impossible"}

FuseOk(changed, self) ==
    [called |-> TRUE, ok |-> TRUE, changed |-> changed, self |-> self, err |-> ""]
FuseErr(err, self) ==
    [called |-> TRUE, ok |-> FALSE, changed |-> FALSE, self |-> self, err |-> err]

\* fuse(&mut self, other, column_name): the result, and self as the call
\* leaves it (also when it fails half way)
fuse(self, other, column_name) ==
    IF self = other THEN FuseOk(FALSE, self)
    ELSE IF self.k = "Column" /\ other.k = "Column"
    THEN IF ~(self.id_foreign_key_constraint = other.id_foreign_key_constraint
              \/ column_name \in POLYMORPHIC_PROPS)
         THEN FuseErr("differing id_foreign_key_constraint", self)
         ELSE IF ~(StartsWithText(self.ty) /\ StartsWithText(other.ty))
                 /\ self.ty # other.ty
         THEN FuseErr("differing type", self)
         ELSE LET relaxed ==
                    IF StartsWithText(self.ty) /\ StartsWithText(other.ty)
                    THEN [self EXCEPT !.ty = "TEXT"] ELSE self
              IN IF self.unique # other.unique THEN FuseErr("uniqueness", relaxed)
                 ELSE FuseOk(TRUE, [relaxed EXCEPT !.null = @ \/ other.null])
    ELSE IF self.k = "Column" /\ self.id_foreign_key_constraint
            /\ other.k = "RelationsTable"
    THEN FuseOk(TRUE, other)
    ELSE IF self.k = "RelationsTable" /\ other.k = "Column"
            /\ other.id_foreign_key_constraint
    THEN IF other.ty = "TEXT" THEN FuseOk(TRUE, self)
         ELSE FuseErr("foreign key not TEXT", self)
    ELSE FuseErr("impossible", self)

SqlRepresentations ==
    {Column(u, n, f, t) : u \in BOOLEAN, n \in BOOLEAN, f \in BOOLEAN,
                          t \in ColumnTypes}
        \cup {RelationsTable, ExtendedPropertiesTable}

\* the property names a fusion is called for: an ordinary property and the
\* polymorphic one
FusedNames == {"P"} \cup POLYMORPHIC_PROPS

FuseInit ==
    /\ fuse_in \in [self : SqlRepresentations, other : SqlRepresentations,
                     column_name : FusedNames]
    /\ fuse_out = FuseNotCalled
    /\ ImportIdle /\ DecoderIdle /\ CloneIdle /\ FetchIdle /\ SchemaIdle
    /\ ProbeIdle /\ ClassifyIdle

\* acc.fuse(other_repr, name)
Fuse ==
    /\ ~fuse_out.called
    /\ fuse_out' = fuse(fuse_in.self, fuse_in.other, fuse_in.column_name)
    /\ UNCHANGED <<fuse_in, outsideFuse>>

FuseNext == Fuse

SpecFuse == FuseInit /\ [][FuseNext]_vars

(***************************************************************************)
(* Properties of fusion                                                    *)
\* C39: fusing a with b and fusing b with a both fail, or both succeed with
\* the same resulting representation
C39_FusionCommutative ==
    fuse_out.called =>
        LET back == fuse(fuse_in.other, fuse_in.self, fuse_in.column_name) IN
        /\ fuse_out.ok = back.ok
        /\ fuse_out.ok => fuse_out.self = back.self

\* the part of C39 that holds: two columns with the same foreign-key flag
\* commute
ColumnsCommute ==
    (/\ fuse_out.called
     /\ fuse_in.self.k = "Column" /\ fuse_in.other.k = "Column"
     /\ fuse_in.self.id_foreign_key_constraint
            = fuse_in.other.id_foreign_key_constraint) =>
        LET back == fuse(fuse_in.other, fuse_in.self, fuse_in.column_name) IN
        /\ fuse_out.ok = back.ok
        /\ fuse_out.ok => fuse_out.self = back.self

(***************************************************************************)
\* the pairings no rule of fuse covers
Uncovered(a, b) ==
    /\ a # b
    /\ \/ a.k = "ExtendedPropertiesTable" \/ b.k = "ExtendedPropertiesTable"
       \/ a.k = "Column" /\ ~a.id_foreign_key_constraint /\ b.k = "RelationsTable"
       \/ b.k = "Column" /\ ~b.id_foreign_key_constraint /\ a.k = "RelationsTable"

\* C16: for an ordinary property P, a non-nullable text column fused with a
\* nullable one gives the nullable text column; a foreign-key column fused
\* with RelationsTable gives RelationsTable; an integer column with a text
\* column, and every pairing no rule covers, is an error that names P.
C16_FusionOutcomes ==
    LET a == fuse_in.self
        b == fuse_in.other
    IN (fuse_out.called /\ fuse_in.column_name = "P") =>
        /\ (/\ a.k = "Column" /\ b.k = "Column"
            /\ a.ty = "TEXT" /\ b.ty = "TEXT"
            /\ ~a.null /\ b.null
            /\ a.unique = b.unique
            /\ a.id_foreign_key_constraint = b.id_foreign_key_constraint)
              => (fuse_out.ok /\ fuse_out.self = b)
        /\ (a.k = "Column" /\ a.id_foreign_key_constraint /\ b.k = "RelationsTable")
              => (fuse_out.ok /\ fuse_out.self = RelationsTable)
        /\ (/\ a.k = "Column" /\ b.k = "Column"
            /\ a.ty = "INTEGER" /\ b.ty = "TEXT")
              => (~fuse_out.ok /\ NamesColumn(fuse_out.err))
        /\ Uncovered(a, b) => (~fuse_out.ok /\ NamesColumn(fuse_out.err))

\* C25: for an ordinary property, two Columns fuse exactly when their
\* foreign-key flags are equal and their types are equal or both text types,
\* whatever their other attributes; the result is nullable iff one of the two
\* is, and has the plain text type when both have a text type.
C25_ColumnFusionRule ==
    LET a == fuse_in.self
        b == fuse_in.other
        both_text == StartsWithText(a.ty) /\ StartsWithText(b.ty)
    IN (/\ fuse_out.called /\ fuse_in.column_name \notin POLYMORPHIC_PROPS
        /\ a.k = "Column" /\ b.k = "Column") =>
        /\ fuse_out.ok <=> (/\ a.id_foreign_key_constraint = b.id_foreign_key_constraint
                            /\ (a.ty = b.ty \/ both_text))
        /\ fuse_out.ok =>
              /\ fuse_out.self.null <=> (a.null \/ b.null)
              /\ both_text => fuse_out.self.ty = "TEXT"

(***************************************************************************)
(* The JSON schema types (json_schema_to_sql/json_schema.rs 28-82) and     *)
(* their classification (sql.rs 297-467)                                   *)
(***************************************************************************)
\* ConcreteType::String: enumeration and constant are TRUE for Some(..),
\* format is "" for None
TString(enumeration, format, constant) ==
    [k |-> "String", enumeration |-> enumeration, format |-> format,
     constant |-> constant]
PlainString == TString(FALSE, "", FALSE)
TNull == [k |-> "Null"]
TBoolean == [k |-> "Boolean"]
TNumber == [k |-> "Number"]
TInteger == [k |-> "Integer"]
TArray(items) == [k |-> "Array", items |-> items]
\* properties: the (name, type) pairs in the order the file lists them
TObject(properties) == [k |-> "Object", properties |-> properties]
TAnyOf(any_of) == [k |-> "AnyOf", any_of |-> any_of]
TOneOf(one_of) == [k |-> "OneOf", one_of |-> one_of]
\* reference: the segments of the $ref path
TRef(reference) == [k |-> "Ref", reference |-> reference]
RefIdentified == TRef(<<"$defs", "Identified">>)
RefOther == TRef(<<"$defs", "Other">>)

\* identified_str: the reference ends with "/Identified"
identified_str(reference) ==
    reference # <<>> /\ reference[Len(reference)] = "Identified"

identified_ref(ty) == ty.k = "Ref" /\ identified_str(ty.reference)

Classified(repr) == [kind |-> "ok", repr |-> repr]
Unclassified == [kind |-> "err", repr |-> NoRepr]
Panicked == [kind |-> "panic", repr |-> NoRepr]

\* json_schema_type_to_sql_type; "" stands for the Err results
json_schema_type_to_sql_type(json_ty) ==
    CASE json_ty.k = "String" ->
           (IF json_ty.enumeration /\ json_ty.format = "" /\ ~json_ty.constant
              THEN "TEXT CHECK"
            ELSE IF ~json_ty.enumeration /\ json_ty.format # "" /\ ~json_ty.constant
              THEN (IF json_ty.format = "uuid" THEN "TEXT CHECK" ELSE "")
            ELSE IF ~json_ty.enumeration /\ json_ty.format = "" /\ json_ty.constant
              THEN "TEXT CHECK"
            ELSE "TEXT")
      [] json_ty.k \in {"Integer", "Boolean"} -> "INTEGER"
      [] json_ty.k = "Number" -> "REAL"
      [] OTHER -> ""

ColumnOfType(null, ty) ==
    IF ty = "" THEN Unclassified ELSE Classified(Column(FALSE, null, FALSE, ty))

\* SqlRepresentation::try_from_json_schema_ty
try_from_json_schema_ty(prop) ==
    CASE prop.k = "Array" /\ identified_ref(prop.items) -> Classified(RelationsTable)
      [] prop.k = "Array" /\ ~identified_ref(prop.items) ->
           (IF prop.items = PlainString THEN Classified(ExtendedPropertiesTable)
            ELSE Unclassified)
      [] prop.k = "String" ->
           (IF ~prop.enumeration /\ prop.format = "uuid" /\ ~prop.constant
              THEN Classified(Column(TRUE, FALSE, FALSE, "TEXT"))
            ELSE ColumnOfType(FALSE, json_schema_type_to_sql_type(prop)))
      [] prop.k = "Ref" ->
           (IF identified_str(prop.reference) THEN Classified(RelationsTable)
            ELSE Unclassified)
      [] prop.k = "OneOf" ->
           (IF Len(prop.one_of) = 2 /\ \E i \in 1..2 : prop.one_of[i] = TNull
            THEN IF \E i \in 1..2 : identified_ref(prop.one_of[i])
                 THEN Classified(RelationsTable)
                 \* one_of.iter().find(|x| *x != &null).unwrap()
                 ELSE IF \A i \in 1..2 : prop.one_of[i] = TNull THEN Panicked
                 ELSE LET i == CHOOSE j \in 1..2 :
                                 /\ prop.one_of[j] # TNull
                                 /\ \A h \in 1..(j - 1) : prop.one_of[h] = TNull
                      IN ColumnOfType(TRUE, json_schema_type_to_sql_type(prop.one_of[i]))
            ELSE Unclassified)
      [] OTHER -> Unclassified

(***************************************************************************)
(* One call of try_from_json_schema_ty, as handle_properties makes it for  *)
(* every property (json_schema_to_sql.rs 190)                              *)
(***************************************************************************)
\* the types without members: "date-time" is a format other than uuid
MemberTypes ==
    {TNull, TBoolean, TNumber, TInteger, RefIdentified, RefOther, TObject(<<>>)}
        \cup {TString(e, f, c) : e \in BOOLEAN, f \in {"", "uuid", "date-time"},
                                 c \in BOOLEAN}

\* the types of the classified properties: arrays and unions of these, too
PropertyTypes ==
    MemberTypes
        \cup {TArray(t) : t \in MemberTypes}
        \cup UNION {{TOneOf(m) : m \in [1..n -> MemberTypes]} : n \in 1..MaxMembers}
        \cup UNION {{TAnyOf(m) : m \in [1..n -> MemberTypes]} : n \in 1..MaxMembers}

ClassifyInit ==
    /\ prop_ty \in PropertyTypes
    /\ classified = NotClassified
    /\ ImportIdle /\ DecoderIdle /\ CloneIdle /\ FetchIdle /\ FuseIdle /\ SchemaIdle
    /\ ProbeIdle

\* SqlRepresentation::try_from_json_schema_ty(prop_name, prop)
Classify ==
    /\ ~classified.called
    /\ classified' = [called |-> TRUE, result |-> try_from_json_schema_ty(prop_ty)]
    /\ UNCHANGED <<prop_ty, outsideClassify>>

ClassifyNext == Classify

SpecClassify == ClassifyInit /\ [][ClassifyNext]_vars

(***************************************************************************)
(* Properties of the classification                                        *)
(***************************************************************************)
\* the members of a union, whichever way it is expressed
Members(ty) ==
    CASE ty.k = "OneOf" -> ty.one_of
      [] ty.k = "AnyOf" -> ty.any_of
      [] OTHER -> <<>>

\* a union of exactly null and one other type; Other is that type
IsNullOr(ty) ==
    /\ Len(Members(ty)) = 2
    /\ \E i \in 1..2 : Members(ty)[i] = TNull /\ Members(ty)[3 - i] # TNull
Other(ty) == Members(ty)[CHOOSE i \in 1..2 : Members(ty)[i] # TNull]

\* the reference shapes: an array of references to Identified, a reference
\* to Identified, a union of null and a reference to Identified
IsReferenceShape(ty) ==
    CASE ty.k = "Array" -> identified_ref(ty.items)
      [] ty.k = "Ref" -> identified_ref(ty)
      [] ty.k \in {"OneOf", "AnyOf"} -> IsNullOr(ty) /\ identified_ref(Other(ty))
      [] OTHER -> FALSE

\* C26: every reference shape is classified as RelationsTable, the union of
\* null and a reference be it a oneOf or an anyOf, in either order; an array
\* of plain strings is classified as ExtendedPropertiesTable.
C26_ReferenceShapes ==
    classified.called =>
        /\ IsReferenceShape(prop_ty) => classified.result = Classified(RelationsTable)
        /\ prop_ty = TArray(PlainString)
              => classified.result = Classified(ExtendedPropertiesTable)

\* C27: a string of format uuid without enum and const is classified as a
\* unique, non-nullable Column without foreign key whose type is a text type
\* with a check of the format.
C27_UuidString ==
    (classified.called /\ prop_ty = TString(FALSE, "uuid", FALSE)) =>
        classified.result = Classified(Column(TRUE, FALSE, FALSE, "TEXT CHECK"))

\* the SQL types of a type X a nullable Column can be typed from
TypesFrom(x) ==
    CASE x.k = "String" -> {"TEXT", "TEXT CHECK"}
      [] x.k \in {"Integer", "Boolean"} -> {"INTEGER"}
      [] x.k = "Number" -> {"REAL"}
      [] OTHER -> {}

\* C28: every call returns a representation or a failure and none crashes;
\* a oneOf of two members, null and X, gives a nullable, non-unique Column
\* without foreign key typed from X for a string, integer, boolean or number
\* X, and a failure for any other X but a reference to Identified, also when
\* both members are null.
C28_ClassificationTotal ==
    classified.called =>
        /\ classified.result.kind \in {"ok", "err"}
        /\ (prop_ty.k = "OneOf" /\ IsNullOr(prop_ty) /\ ~identified_ref(Other(prop_ty))) =>
              IF TypesFrom(Other(prop_ty)) # {}
              THEN \E ty \in TypesFrom(Other(prop_ty)) :
                      classified.result = Classified(Column(FALSE, TRUE, FALSE, ty))
              ELSE classified.result.kind = "err"
        /\ prop_ty = TOneOf(<<TNull, TNull>>) => classified.result.kind = "err"

(***************************************************************************)
(* consume_json_schema (json_schema_to_sql.rs 34-221) and to_create_table  *)
(* (sql.rs 148-292)                                                        *)
(***************************************************************************)
\* the names of definitions and properties, in the byte order of String's Ord
NameOrder == <<"@id", "A", "B", "C", "aliasIds", "name", "owner", "value">>
Rank(name) == CHOOSE i \in DOMAIN NameOrder : NameOrder[i] = name
PropertyNames == {"@id", "aliasIds", "name", "owner", "value"}

\* the keys of S in ascending order
RECURSIVE Ascending(_)
Ascending(S) ==
    IF S = {} THEN <<>>
    ELSE LET least == CHOOSE x \in S : \A y \in S : Rank(x) <= Rank(y)
         IN <<least>> \o Ascending(S \ {least})

\* (a map that keeps its entries in the order of insertion)
InsertionOrder(entries) == entries

\* a BTreeMap deserialized from the (key, value) pairs of a JSON object: the
\* pairs in ascending key order, a later pair replacing an earlier one of the
\* same key
BTreeMapOf(entries) ==
    LET keys == Ascending({entries[i][1] : i \in DOMAIN entries})
        LastOf(key) == CHOOSE i \in DOMAIN entries :
                          /\ entries[i][1] = key
                          /\ \A j \in DOMAIN entries : entries[j][1] = key => j <= i
    IN [n \in DOMAIN keys |-> entries[LastOf(keys[n])]]

\* the derived Ord of SqlRepresentation: the variant first, then unique, null,
\* id_foreign_key_constraint and ty
TypeOrder == <<"ANY", "INTEGER", "REAL", "TEXT", "TEXT CHECK">>
ReprRank(r) ==
    CASE r.k = "Column" ->
           (IF r.unique THEN 40 ELSE 0) + (IF r.null THEN 20 ELSE 0)
           + (IF r.id_foreign_key_constraint THEN 10 ELSE 0)
           + (CHOOSE i \in DOMAIN TypeOrder : TypeOrder[i] = r.ty)
      [] r.k = "RelationsTable" -> 100
      [] r.k = "ExtendedPropertiesTable" -> 200

\* the members of a BTreeSet<SqlRepresentation> in iteration order
RECURSIVE ReprsAscending(_)
ReprsAscending(S) ==
    IF S = {} THEN <<>>
    ELSE LET least == CHOOSE x \in S : \A y \in S : ReprRank(x) <= ReprRank(y)
         IN <<least>> \o ReprsAscending(S \ {least})

\* columns: BTreeMap<String, BTreeSet<SqlRepresentation>>; a name without
\* entry has the empty set
NoColumns == [n \in PropertyNames |-> {}]

Collected(columns) == [ok |-> TRUE, err |-> "", columns |-> columns]
Bailed(err, columns) == [ok |-> FALSE, err |-> err, columns |-> columns]

\* the special check for the primary key property: "" if it passes
PrimaryKeyCheck(repr) ==
    IF repr.k # "Column" THEN "@id must be resolved to a column"
    ELSE IF ~repr.unique THEN "@id is expected to be unique"
    ELSE IF repr.id_foreign_key_constraint THEN "@id foreign_key_constraint"
    ELSE IF repr.null THEN "@id must not allow null"
    ELSE ""

\* handle_properties, for the properties from the i-th one on
RECURSIVE handle_properties(_, _, _)
handle_properties(properties, i, columns) ==
    IF i > Len(properties) THEN Collected(columns)
    ELSE LET prop_name == properties[i][1]
             c == try_from_json_schema_ty(properties[i][2])
         IN CASE c.kind = "panic" -> Bailed("panic", columns)
              [] c.kind = "err" -> handle_properties(properties, i + 1, columns)
              [] c.kind = "ok" ->
                   IF prop_name = ELEMENT_PK_COL /\ PrimaryKeyCheck(c.repr) # ""
                   THEN Bailed(PrimaryKeyCheck(c.repr), columns)
                   ELSE handle_properties(properties, i + 1,
                           [columns EXCEPT ![prop_name] = @ \cup {c.repr}])

\* the members of an anyOf or oneOf definition, from the i-th one on
RECURSIVE HandleComposite(_, _, _)
HandleComposite(members, i, columns) ==
    IF i > Len(members) THEN Collected(columns)
    ELSE CASE members[i].k = "Object" ->
                LET h == handle_properties(BTreeMapOf(members[i].properties), 1, columns)
                IN IF h.ok THEN HandleComposite(members, i + 1, h.columns) ELSE h
           [] members[i].k = "Ref" -> HandleComposite(members, i + 1, columns)
           [] OTHER -> Bailed("unexpected type inside of composite", columns)

\* the loop over all definitions, from the i-th one on
RECURSIVE HandleDefinitions(_, _, _)
HandleDefinitions(defs, i, columns) ==
    IF i > Len(defs) THEN Collected(columns)
    ELSE LET ty == defs[i][2]
             h == CASE ty.k = "Object" ->
                         handle_properties(BTreeMapOf(ty.properties), 1, columns)
                    [] ty.k = "String" -> Collected(columns)
                    [] ty.k = "AnyOf" -> HandleComposite(ty.any_of, 1, columns)
                    [] ty.k = "OneOf" -> HandleComposite(ty.one_of, 1, columns)
                    [] OTHER -> Bailed("definition of unexpected type", columns)
         IN IF h.ok THEN HandleDefinitions(defs, i + 1, h.columns) ELSE h

\* reprs.try_fold(first, |acc, other| acc.fuse(other, name).map(|_| acc))
RECURSIVE FoldFuse(_, _, _, _)
FoldFuse(acc, reprs, i, name) ==
    IF i > Len(reprs) THEN FuseOk(TRUE, acc)
    ELSE LET f == fuse(acc, reprs[i], name) IN
         IF f.ok THEN FoldFuse(f.self, reprs, i + 1, name) ELSE f

\* (the fusion loop without its `continue` for the polymorphic names)
FusedKeysAll(columns) == {n \in PropertyNames : columns[n] # {}}

\* the names that have an entry in columns, without the polymorphic ones
FusedKeys(columns) ==
    {n \in PropertyNames : columns[n] # {} /\ n \notin POLYMORPHIC_PROPS}

FusionOf(columns, n) ==
    LET reprs == ReprsAscending(columns[n]) IN FoldFuse(reprs[1], reprs, 2, n)

\* the CREATE TABLE statements, by what they hold: the columns of elements,
\* the names the CHECK of relations allows and the columns of
\* extended_properties, each in the order of the text
to_create_table(fused) ==
    LET names == Ascending(DOMAIN fused)
        Of(kind) == SelectSeq(names, LAMBDA n : fused[n].k = kind)
        cols == Of("Column")
    IN [elements |->
          [i \in DOMAIN cols |->
             [name |-> cols[i], ty |-> fused[cols[i]].ty,
              primary_key |-> cols[i] = ELEMENT_PK_COL,
              \* the NOT NULL of a non-nullable column is commented out
              not_null |-> FALSE,
              unique |-> fused[cols[i]].unique,
              references |-> fused[cols[i]].id_foreign_key_constraint]],
        relations |-> Of("RelationsTable") \o Ascending(POLYMORPHIC_PROPS)
                        \o <<"analysisAction">>,
        extended_properties |-> <<ELEMENT_PK_COL>> \o Of("ExtendedPropertiesTable")]

Generated(ddl) == [called |-> TRUE, ok |-> TRUE, err |-> "", ddl |-> ddl]
GenerationFailed(err) == [called |-> TRUE, ok |-> FALSE, err |-> err, ddl |-> <<>>]

\* the fusion of every collected column, in ascending order of the names:
\* the first error ends it
fuse_columns(columns) ==
    LET keys == Ascending(FusedKeys(columns))
        fusions == [i \in DOMAIN keys |-> FusionOf(columns, keys[i])]
        Failing == {i \in DOMAIN keys : ~fusions[i].ok}
    IN IF Failing # {}
       THEN GenerationFailed(fusions[CHOOSE i \in Failing : \A j \in Failing : i <= j].err)
       \* fused_columns.insert(name, ..) returns the entry it replaces
       ELSE IF \E i \in DOMAIN keys : keys[i] \in POLYMORPHIC_PROPS
       THEN GenerationFailed("polymorphic property already present")
       ELSE Generated(to_create_table(
               [n \in FusedKeys(columns) \cup POLYMORPHIC_PROPS |->
                  IF n \in POLYMORPHIC_PROPS
                  THEN Column(FALSE, TRUE, FALSE, "ANY")
                  ELSE fusions[CHOOSE i \in DOMAIN keys : keys[i] = n].self]))

\* consume_json_schema on the definitions of a schema file (no database)
consume_json_schema(file) ==
    LET h == HandleDefinitions(BTreeMapOf(file), 1, NoColumns) IN
    IF ~h.ok THEN GenerationFailed(h.err) ELSE fuse_columns(h.columns)

(***************************************************************************)
(* The json-schema-to-sql-schema command (main.rs 63-79) on a schema file  *)
(***************************************************************************)
\* the types a definition of the file may have
DefinitionTypes ==
    { TObject(<< <<"@id", PlainString>> >>),
      TObject(<< <<"@id", TArray(RefIdentified)>> >>),
      TObject(<< <<"@id", TBoolean>>, <<"value", PlainString>> >>),
      TObject(<< <<"@id", TString(FALSE, "uuid", FALSE)>>, <<"name", PlainString>>,
                 <<"owner", RefOther>> >>),
      TObject(<< <<"name", TOneOf(<<TNull, PlainString>>)>>,
                 <<"value", TOneOf(<<TNull, TInteger>>)>> >>),
      TObject(<< <<"name", TOneOf(<<TInteger, TNull>>)>> >>),
      TObject(<< <<"name", TOneOf(<<TNull, TNull>>)>> >>),
      TAnyOf(<< RefOther,
                TObject(<< <<"name", TString(TRUE, "", FALSE)>>,
                           <<"aliasIds", TArray(PlainString)>>,
                           <<"owner", TOneOf(<<TNull, RefIdentified>>)>>,
                           <<"value", TArray(RefIdentified)>> >>) >>),
      TOneOf(<< TInteger >>),
      PlainString,
      TInteger }

DefinitionNames == {"A", "B", "C"}

\* the schema files: up to MaxDefs definitions under different names
SchemaFiles ==
    UNION {{f \in [1..n -> DefinitionNames \X DefinitionTypes] :
              \A i, j \in 1..n : f[i][1] = f[j][1] => i = j} : n \in 0..MaxDefs}

Reverse(q) == [i \in DOMAIN q |-> q[Len(q) + 1 - i]]

\* the same type with the properties of its objects listed in another order
RECURSIVE Relistings(_)
Relistings(ty) ==
    CASE ty.k = "Object" -> {ty, TObject(Reverse(ty.properties))}
      [] ty.k = "AnyOf" ->
           {TAnyOf(m) : m \in {q \in [DOMAIN ty.any_of ->
                                        UNION {Relistings(ty.any_of[i]) : i \in DOMAIN ty.any_of}] :
                                  \A i \in DOMAIN q : q[i] \in Relistings(ty.any_of[i])}}
      [] OTHER -> {ty}

\* the files that hold the definitions and properties of file in some order
SameModel(file) ==
    UNION {{[i \in DOMAIN file |-> <<file[p[i]][1], v[i]>>] :
              v \in {w \in [DOMAIN file -> UNION {Relistings(file[i][2]) : i \in DOMAIN file}] :
                        \A i \in DOMAIN file : w[i] \in Relistings(file[p[i]][2])}} :
           p \in Permutations(DOMAIN file)}

SchemaInit ==
    /\ schema_file \in SchemaFiles
    /\ schema_again \in SameModel(schema_file)
    /\ generated = NotGenerated
    /\ generated_again = NotGenerated
    /\ ImportIdle /\ DecoderIdle /\ CloneIdle /\ FetchIdle /\ FuseIdle
    /\ ProbeIdle /\ ClassifyIdle

\* json-schema-to-sql-schema --no-init on the first file
ConsumeJsonSchema ==
    /\ ~generated.called
    /\ generated' = consume_json_schema(schema_file)
    /\ UNCHANGED <<schema_file, schema_again, generated_again, outsideSchema>>

\* ... and then on the second file
ConsumeJsonSchemaAgain ==
    /\ generated.called
    /\ ~generated_again.called
    /\ generated_again' = consume_json_schema(schema_again)
    /\ UNCHANGED <<schema_file, schema_again, generated, outsideSchema>>

SchemaNext == ConsumeJsonSchema \/ ConsumeJsonSchemaAgain

SpecSchema == SchemaInit /\ [][SchemaNext]_vars

(***************************************************************************)
(* Properties of schema generation                                         *)
(***************************************************************************)
\* C17: two schema files that hold the same definitions and properties, in
\* whatever order, give the same DDL or the same error; so does a repeated
\* run on one file.
C17_DeterministicSchema ==
    /\ (generated.called /\ generated_again.called) => generated = generated_again
    /\ generated.called => generated = consume_json_schema(schema_file)

\* C17: both files were converted; they list two definitions in opposite
\* order, of which the first fails on @id and the second on its type
C17_Witness ==
    /\ generated.called /\ generated_again.called
    /\ Len(schema_file) = 2
    /\ schema_again = Reverse(schema_file)
    /\ schema_file[1] = <<"B", TObject(<< <<"@id", PlainString>> >>)>>
    /\ schema_file[2] = <<"A", TInteger>>

\* the elements table has the primary key column @id, unique and no
\* foreign key
HasPrimaryKey(ddl) ==
    \E i \in DOMAIN ddl.elements :
        /\ ddl.elements[i].name = ELEMENT_PK_COL
        /\ ddl.elements[i].primary_key
        /\ ddl.elements[i].unique
        /\ ~ddl.elements[i].references

\* C18: schema generation fails unless @id resolves to a unique,
\* non-nullable column without foreign key: whenever it succeeds, the
\* elements table has that primary key column.
C18_PrimaryKeyMandatory ==
    (generated.called /\ generated.ok) => HasPrimaryKey(generated.ddl)

\* the (name, type) pairs of the properties a type declares: those of an
\* object, and those of the objects among the members of a union
Declares(ty) ==
    CASE ty.k = "Object" -> Range(ty.properties)
      [] ty.k \in {"AnyOf", "OneOf"} ->
           UNION {IF Members(ty)[i].k = "Object" THEN Range(Members(ty)[i].properties)
                  ELSE {} : i \in DOMAIN Members(ty)}
      [] OTHER -> {}

Declared(file) == UNION {Declares(file[i][2]) : i \in DOMAIN file}

\* the names of the properties of which some declaration matches a
\* classification rule
ClassifiedNames(file) ==
    {p[1] : p \in {q \in Declared(file) : try_from_json_schema_ty(q[2]).kind = "ok"}}

\* the names the DDL mentions: the columns of elements, the names relations
\* admits and the columns of extended_properties
DdlNames(ddl) ==
    {ddl.elements[i].name : i \in DOMAIN ddl.elements}
        \cup Range(ddl.relations) \cup Range(ddl.extended_properties)

\* the names every DDL mentions, whatever the schema declares
FixedNames == POLYMORPHIC_PROPS \cup {"analysisAction", ELEMENT_PK_COL}

\* what ends schema generation: a definition or union member of unsupported
\* kind, a fusion conflict, a malformed @id
AbortCauses ==
    {"definition of unexpected type", "unexpected type inside of composite"}
        \cup FuseErrors
        \cup {"@id must be resolved to a column", "@id is expected to be unique",
              "@id foreign_key_constraint", "@id must not allow null"}

\* C29: a property no classification rule matches is left out and the run
\* goes on: the DDL of a successful run mentions exactly the properties that
\* some rule matches; a run only fails for a definition or union member of
\* unsupported kind, a fusion conflict or a malformed @id.
C29_UnclassifiedNotFatal ==
    generated.called =>
        /\ generated.ok =>
              DdlNames(generated.ddl) \ FixedNames
                  = ClassifiedNames(schema_file) \ FixedNames
        /\ ~generated.ok => generated.err \in AbortCauses

\* the property names whose representations fuse to RelationsTable
FusedToRelationsTable(file) ==
    LET columns == HandleDefinitions(BTreeMapOf(file), 1, NoColumns).columns
    IN {n \in FusedKeys(columns) : FusionOf(columns, n).self = RelationsTable}

\* C31: the names the CHECK constraint of the generated relations table
\* admits are the property names that fused to RelationsTable and the
\* polymorphic names, and no other name.
C31_AllowedRelationNames ==
    (generated.called /\ generated.ok) =>
        Range(generated.ddl.relations)
            = FusedToRelationsTable(schema_file) \cup POLYMORPHIC_PROPS

\* a type without the properties of the polymorphic names
RECURSIVE StripPolymorphic(_)
StripPolymorphic(ty) ==
    CASE ty.k = "Object" ->
           TObject(SelectSeq(ty.properties, LAMBDA p : p[1] \notin POLYMORPHIC_PROPS))
      [] ty.k = "AnyOf" -> TAnyOf([i \in DOMAIN ty.any_of |-> StripPolymorphic(ty.any_of[i])])
      [] ty.k = "OneOf" -> TOneOf([i \in DOMAIN ty.one_of |-> StripPolymorphic(ty.one_of[i])])
      [] OTHER -> ty

Undeclared(file) == [i \in DOMAIN file |-> <<file[i][1], StripPolymorphic(file[i][2])>>]

\* the columns of elements named n
ColumnsNamed(ddl, n) == {i \in DOMAIN ddl.elements : ddl.elements[i].name = n}

\* C30: a successful run gives every polymorphic name the one fixed column:
\* generic type, not unique, nullable, no foreign key; what the schema
\* declares for such a name changes nothing, neither the DDL nor whether the
\* run succeeds: declarations that cannot be fused do not fail it, and the
\* fixed column never meets a fused one.
C30_PolymorphicForced ==
    generated.called =>
        /\ generated = consume_json_schema(Undeclared(schema_file))
        /\ generated.err # "polymorphic property already present"
        /\ generated.ok =>
              \A n \in POLYMORPHIC_PROPS :
                  /\ Cardinality(ColumnsNamed(generated.ddl, n)) = 1
                  /\ \A i \in ColumnsNamed(generated.ddl, n) :
                        LET c == generated.ddl.elements[i] IN
                        /\ c.ty = "ANY" /\ ~c.unique /\ ~c.not_null
                        /\ ~c.references /\ ~c.primary_key

\* a run succeeded on a schema that declares value as a text column in one
\* definition and as a nullable integer column in another
C30_Witness ==
    /\ generated.called /\ generated.ok
    /\ \E p, q \in Declared(schema_file) :
          /\ p[1] \in POLYMORPHIC_PROPS /\ q[1] = p[1]
          /\ try_from_json_schema_ty(p[2]) = Classified(Column(FALSE, FALSE, FALSE, "TEXT"))
          /\ try_from_json_schema_ty(q[2]) = Classified(Column(FALSE, TRUE, FALSE, "INTEGER"))

(***************************************************************************)
(* Properties of the extended_properties rows of an import                 *)
(***************************************************************************)
\* the ids that exactly one element of the batch has
IdsOnce(b) ==
    {id \in BatchIds(b) :
        Cardinality({k \in DOMAIN b : b[k].ok /\ b[k].element.id = id}) = 1}

ElementOf(b, id) == b[CHOOSE k \in DOMAIN b : b[k].ok /\ b[k].element.id = id].element

\* the attributes of an element that are arrays of strings under the name
\* of an extended_properties column
ExtAttrs(element) ==
    {n \in ColumnNames(ExtendedColumns) \ {ELEMENT_PK_COL} :
        element.rest[n].t = "arr" /\ element.rest[n].a # <<>>
        /\ IsStringArray(element.rest[n])}

\* how many entries of the element's attribute (row.col) are row.val
Entries(element, row) ==
    IF row.col \in ExtAttrs(element)
    THEN Cardinality({i \in DOMAIN element.rest[row.col].a :
                        element.rest[row.col].a[i].s = row.val})
    ELSE 0

\* the rows of extended_properties that id owns are one row per entry of the
\* element's extended-property arrays, and no others
OneRowPerEntry(store, element) ==
    /\ \A row \in BagToSet(store.extended_properties) :
          row.id = element.id =>
              CopiesIn(row, store.extended_properties) = Entries(element, row)
    /\ \A n \in ExtAttrs(element) : \A i \in DOMAIN element.rest[n].a :
          BagIn(ExtRow(element.id, n, element.rest[n].a[i].s),
                store.extended_properties)

OwnsRows(store, id) ==
    \E row \in BagToSet(store.extended_properties) : row.id = id

\* C19: after the import of an element that owned extended_properties rows
\* before, the rows it owns are exactly one per value the batch gives it; no
\* row of the earlier import remains.
C19_ExtSupersession ==
    Succeeded =>
        \A id \in IdsOnce(batch) :
            OwnsRows(pre, id) => OneRowPerEntry(db, ElementOf(batch, id))

\* C20: after the import of an element that owned no extended_properties row
\* before, the rows it owns are exactly one per entry of each of its
\* extended-property arrays, also when it has several such arrays.
C20_ExtRowsPerImport ==
    Succeeded =>
        \A id \in IdsOnce(batch) :
            ~OwnsRows(pre, id) => OneRowPerEntry(db, ElementOf(batch, id))

(***************************************************************************)
(* One element taken through pass 1 (import.rs 187-245) and pass 2         *)
(* (import.rs 285-384) by itself, against the tables init-db creates       *)
(***************************************************************************)
\* the values an attribute may have; the f64 number n stands for n + 0.5
ProbeValues ==
    { Absent, JNull, JBool(TRUE), JBool(FALSE),
      JNum("i64", 1), JNum("f64", 2), JNum("u64", 3),
      JStr("true"), JStr("false"), JStr("yes"),
      JRef("b"), JObj("str", "b", 1), JObj("other", "", 0), JObj("none", "", 0),
      JArr(<<>>), JArr(<<JRef("b")>>), JArr(<<JStr("v")>>), JArr(<<JNum("i64", 1)>>),
      JArr(<<JStr("v"), JNum("i64", 1)>>), JArr(<<JRef("b"), JStr("v")>>) }

\* the elements that carry up to two attributes
ProbeElements ==
    {Elem("a", (n1 :> v1) @@ (n2 :> v2)) :
        <<n1, v1, n2, v2>> \in AttrNames \X ProbeValues \X AttrNames \X ProbeValues}

ProbeInit ==
    /\ probe \in ProbeElements
    /\ probed = NotProbed
    /\ ImportIdle /\ DecoderIdle /\ CloneIdle /\ FetchIdle /\ FuseIdle /\ SchemaIdle
    /\ ClassifyIdle

\* pass 1 on the element: the value of every column, and whether the row is
\* inserted
BuildRow ==
    /\ probed.called = "none"
    /\ probed' = [called |-> "pass1",
                  columns |-> [c \in ColumnNames(ElementsColumns) |-> ColumnValue(probe, c)],
                  inserted |-> RowBuilds(probe, ElementsColumns),
                  effects |-> [n \in AttrNames |-> NoEffect],
                  completed |-> FALSE]
    /\ UNCHANGED <<probe, outsideProbe>>

\* pass 2 on the element, once pass 1 went through: what every attribute
\* inserts, and whether the loop over the attributes comes to its end
ClassifyAttributes ==
    /\ probed.called = "pass1"
    /\ probed.inserted
    /\ probed' = [probed EXCEPT
                    !.called = "pass2",
                    !.effects = [n \in AttrNames |-> AttrEffect(probe, n, ExtendedColumns)],
                    !.completed = Pass2Element(NoTransaction, probe, AttrOrder,
                                               ExtendedColumns).ok]
    /\ UNCHANGED <<probe, outsideProbe>>

ProbeNext == BuildRow \/ ClassifyAttributes

SpecProbe == ProbeInit /\ [][ProbeNext]_vars

(***************************************************************************)
(* Properties of the elements rows of an import                            *)
(***************************************************************************)
\* the version of an element that comes last in the batch
LastVersion(b, id) ==
    b[CHOOSE k \in DOMAIN b :
        /\ b[k].ok /\ b[k].element.id = id
        /\ \A h \in DOMAIN b : (b[h].ok /\ b[h].element.id = id) => h <= k].element

\* C24: after a successful import the elements row of every element of the
\* batch is the row built from its version in the batch alone: a column whose
\* attribute that version lacks is null, whatever was stored before.
C24_ScalarRowReplaced ==
    Succeeded =>
        \A id \in BatchIds(batch) :
            {r \in db.elements : r.id = id}
                = {ElementRow(LastVersion(batch, id), ElementsColumns)}

\* an element stored with a name was imported again without one
C24_Witness ==
    /\ Succeeded
    /\ \E id \in BatchIds(batch) :
          /\ \E r \in pre.elements : r.id = id /\ r.cols["name"] # DbNull
          /\ \A k \in DOMAIN batch :
                batch[k].element.id = id => batch[k].element.rest["name"] = Absent

(***************************************************************************)
(* The import as a function of the store and the batch                     *)
(***************************************************************************)
\* the outcome of one run of import_from_iter on a store: the steps Prepare,
\* InsertElements, RemoveObsolete, InsertRelations and Commit in one
ImportOf(store, items) ==
    IF ~PrepareSucceeds(store)
    THEN [ok |-> FALSE, db |-> DropTransaction(store, NoTransaction)]
    ELSE LET r1 == Pass1(BeginTransaction(store), items,
                         get_table_columns(store, "elements", ElementsColumns))
         IN
         IF ~r1.ok THEN [ok |-> FALSE, db |-> DropTransaction(store, r1.ta)]
         ELSE LET r2 == Pass2(ObsoleteDelete(r1.ta), items,
                              get_table_columns(store, "extended_properties",
                                                ExtendedColumns))
              IN
              IF r2.ok /\ ForeignKeysHold(r2.ta)
              THEN [ok |-> TRUE, db |-> Committed(store, r2.ta)]
              ELSE [ok |-> FALSE, db |-> DropTransaction(store, r2.ta)]

\* a finished run has the outcome ImportOf computes from the store it met
RunIsImportOf ==
    Finished => ImportOf(pre, batch) = [ok |-> result = "ok", db |-> db]

\* the batch without the later occurrences of an item it holds already
RECURSIVE WithoutRepeats(_)
WithoutRepeats(b) ==
    IF b = <<>> THEN <<>>
    ELSE LET front == WithoutRepeats(SubSeq(b, 1, Len(b) - 1))
             last == b[Len(b)]
         IN  IF \E i \in DOMAIN front : front[i] = last
             THEN front ELSE Append(front, last)

HasRepeat(b) == \E i, j \in DOMAIN b : i # j /\ b[i].ok /\ b[i] = b[j]

\* C37: the import of a batch that holds an element twice with identical
\* content ends like the import of the batch that holds it once would have:
\* same outcome, same rows with the same multiplicity in the three tables
C37_IdenticalDuplicatesHarmless ==
    Finished /\ HasRepeat(batch) =>
        ImportOf(pre, WithoutRepeats(batch)) = [ok |-> result = "ok", db |-> db]

\* the part of C37 that holds: the rows of elements and relations
DuplicatesKeepKeyedTables ==
    Finished /\ HasRepeat(batch) =>
        LET once == ImportOf(pre, WithoutRepeats(batch)) IN
        /\ once.ok = (result = "ok")
        /\ once.db.elements = db.elements
        /\ once.db.relations = db.relations

\* the batch in another order
Reordered(b, p) == [i \in DOMAIN b |-> b[p[i]]]

DistinctIds(b) ==
    /\ \A i \in DOMAIN b : b[i].ok
    /\ \A i, j \in DOMAIN b : i # j => b[i].element.id # b[j].element.id

\* C38: the import of a batch of elements with pairwise distinct ids ends
\* like the import of the same elements in any other order would have: same
\* success or failure, same rows of the three tables
C38_OrderIndependent ==
    Finished /\ DistinctIds(batch) =>
        \A p \in Permutations(DOMAIN batch) :
            ImportOf(pre, Reordered(batch, p)) = [ok |-> result = "ok", db |-> db]

\* a batch in which an element refers to a later one was imported with
\* success
C38_Witness ==
    /\ Succeeded
    /\ DistinctIds(batch)
    /\ Len(batch) >= 2
    /\ db.relations # {}
    /\ \E i, j \in DOMAIN batch :
          /\ i < j
          /\ <<"owner", batch[i].element.id, batch[j].element.id>> \in db.relations

(***************************************************************************)
(* Properties of the two passes on one element                             *)
(***************************************************************************)
\* the values a column may get for an attribute value: null for a missing or
\* null attribute, 0 or 1 for a boolean and for a string in a boolean flag
\* column, the integer of an integral number, the real of a floating number,
\* the text of a string, null for an array or an object
Pass1Values(j, column_name) ==
    CASE j.t \in {"absent", "null", "arr", "obj"} -> {DbNull}
      [] j.t = "bool" -> {DbInteger(IF j.b THEN 1 ELSE 0)}
      [] j.t = "str" /\ IsBoolFlagColumn(column_name) -> {DbInteger(0), DbInteger(1)}
      [] j.t = "str" /\ ~IsBoolFlagColumn(column_name) -> {DbText(j.s)}
      [] j.t = "num" /\ j.n.kind = "f64" -> {DbReal(j.n.n)}
      [] j.t = "num" /\ j.n.kind # "f64" -> {DbInteger(j.n.n)}

\* C21: pass 1 gives every column of every element a value, the one its
\* attribute value calls for, and inserts the row: no attribute value makes
\* it fail.
C21_Pass1Total ==
    probed.called # "none" =>
        /\ probed.inserted
        /\ \A c \in ColumnNames(ElementsColumns) \ {ELEMENT_PK_COL} :
              /\ probed.columns[c].ok
              /\ probed.columns[c].val \in Pass1Values(probe.rest[c], c)

\* the attributes pass 1 consumes: the columns of elements but the
\* polymorphic ones
ConsumedByPass1 ==
    (ColumnNames(ElementsColumns) \ {ELEMENT_PK_COL}) \ POLYMORPHIC_PROPS

\* C22: an attribute named like a column of elements that is not polymorphic
\* inserts no relations row and no extended_properties row in pass 2 and does
\* not make pass 2 fail, whatever its value.
C22_Pass2SkipsColumns ==
    probed.called = "pass2" =>
        \A n \in ConsumedByPass1 \cap AttrNames : probed.effects[n] = NoEffect

IsScalarOrNull(j) == j.t \in {"null", "bool", "num", "str"}

\* an object or array that is neither a relation, nor an array of relations,
\* nor an array of strings under the name of an extended_properties column
IsUnexpectedComplex(j, name) ==
    /\ j.t \in {"obj", "arr"}
    /\ ~(j.t = "obj" /\ is_relation_object(j.o))
    /\ ~(j.t = "arr" /\ AllRelationObjects(j.a))
    /\ ~(IsStringArray(j) /\ name \in ColumnNames(ExtendedColumns))

\* C23: in pass 2 a null or scalar attribute, and an object or array
\* attribute that is not relation-shaped, insert no row and do not make the
\* import fail, under any name.
C23_Pass2NeverFatal ==
    probed.called = "pass2" =>
        \A n \in AttrNames :
            (IsScalarOrNull(probe.rest[n]) \/ IsUnexpectedComplex(probe.rest[n], n))
                => probed.effects[n] = NoEffect
====
